---- MODULE Spec2Model ----
(***************************************************************************)
(* Model of openweathermap_client.api_client.OpenWeatherMapClient: the     *)
(* constructor, the facade operations, _get_data, the retry loop of _get   *)
(* and the loading of a response body with a schema.                       *)
(*                                                                         *)
(* Spec follows the retry loop with every choice of constructor keywords,  *)
(* SpecFacade every facade method with accepted and refused arguments,     *)
(* SpecData the operations of _get_data to their end, bodies included.     *)
(* SpecLoop is the retry loop under weak fairness of its steps, SpecBox    *)
(* get_current_weather_within_box called again with the same list,         *)
(* SpecSchema the loading of raw mappings by every schema, and SpecShared  *)
(* two callers whose steps interleave, on one instance or on two.          *)
(*                                                                         *)
(* Two client objects, "a" and "b", are driven through the same program:   *)
(* the same constructor keywords, the same facade calls and the same       *)
(* transport outcomes, each with its own api_key.  Everything a client     *)
(* does is computed from its own fields by the operators translated from   *)
(* the source; the pair exists so that properties relating two clients     *)
(* (what depends on the credential and what does not) can be stated.       *)
(***************************************************************************)
EXTENDS Integers, Sequences, FiniteSets, TLC

VARIABLES
    obj,        \* per client: "none" | "constructed" | "failed" (__init__ raised)
    self,       \* per client: the instance attributes (empty before __init__ sets them)
    frame,      \* per client: the activation of the current facade call / _get
    net,        \* per client: what the transport saw during the current _get (history)
    ctor,       \* the constructor arguments used (history)
    call,       \* the facade call in progress or last made (history)
    reached,    \* per client: the most recent invocation of _get (history)
    result,     \* per client: what the current facade call returned
    log,        \* per client: the records logged by __init__, then by the current facade call
    held,       \* the list that the caller passed as `box`, as the call left it
    sharing     \* whether the two callers use one instance, and what each has met (history)

vars == <<obj, self, frame, net, ctor, call, reached, result, log, held,
          sharing>>

----------------------------------------------------------------------------
(* Bounds of the model *)

\* explicit max_retries arguments range over -1 .. MaxRetriesArg
MaxRetriesArg == 3

\* the longest list of city IDs handed to get_current_weather_group
MaxCityIds == 21

\* the calls that each of two concurrent callers makes
MaxSharedCalls == 1

----------------------------------------------------------------------------
(* Python values *)

Clients == {"a", "b"}

\* Python's None where a string is expected; differs from every string drawn
None == "<None>"

\* a str / an int stored in a dict
S(s) == [t |-> "str", v |-> s]
I(n) == [t |-> "int", v |-> n]

\* a float of integral value n stored in a dict
F(n) == [t |-> "float", v |-> n]

\* str(v), as '{}'.format(v) renders it
Str(v) ==
    IF v.t = "int" THEN ToString(v.v)
    ELSE IF v.t = "float" THEN ToString(v.v) \o ".0"
    ELSE v.v

\* an instance on which no attribute has been set
NoAttrs == <<>>

\* dicts keep insertion order: a sequence of <<key, value>>
EmptyDict == <<>>

Keys(d) == {d[i][1] : i \in DOMAIN d}

Get(d, k) == d[CHOOSE i \in DOMAIN d : d[i][1] = k][2]

\* d[k] = v
SetItem(d, k, v) ==
    IF k \in Keys(d)
    THEN [i \in DOMAIN d |-> IF d[i][1] = k THEN <<k, v>> ELSE d[i]]
    ELSE Append(d, <<k, v>>)

\* d.update(e)
RECURSIVE Update(_, _)
Update(d, e) ==
    IF e = <<>> THEN d
    ELSE Update(SetItem(d, Head(e)[1], Head(e)[2]), Tail(e))

\* d.pop(k), value discarded
Pop(d, k) == SelectSeq(d, LAMBDA p : p[1] # k)

\* sep.join(parts)
RECURSIVE Join(_, _)
Join(parts, sep) ==
    IF parts = <<>> THEN ""
    ELSE IF Len(parts) = 1 THEN parts[1]
    ELSE parts[1] \o sep \o Join(Tail(parts), sep)

\* keyword argument with its default
Kw(kwargs, name, default) ==
    IF name \in DOMAIN kwargs THEN kwargs[name] ELSE default

----------------------------------------------------------------------------
(* Module constants *)

_API_HOST == "api.openweathermap.org"
_API_DATA_VERSION == "2.5"
_API_POLLUTION_VERSION == "v1"

\* default of the max_retries keyword of __init__
DEFAULT_MAX_RETRIES == 5

\* default of the units keyword of __init__
DEFAULT_UNITS == "metric"

\* requests.codes.ok, requests.codes.bad_gateway
codes_ok == 200
codes_bad_gateway == 502

_AVAILABLE_SERVICES ==
    [city_list |->
        [uri |-> "http://bulk.openweathermap.org/sample/city.list.json.gz",
         schema |-> [name |-> "CitySchema", many |-> TRUE]],
     forecast_5d |->
        [uri |-> "/data/" \o _API_DATA_VERSION \o "/forecast",
         schema |-> [name |-> "ForecastSchema", many |-> FALSE]],
     current_weather |->
        [uri |-> "/data/" \o _API_DATA_VERSION \o "/weather",
         schema |-> [name |-> "CurrentWeatherSchema", many |-> FALSE]],
     current_weather_box |->
        [uri |-> "/data/" \o _API_DATA_VERSION \o "/box/city",
         schema |-> [name |-> "CurrentWeatherSearchSchema", many |-> FALSE]],
     current_weather_circle |->
        [uri |-> "/data/" \o _API_DATA_VERSION \o "/find",
         schema |-> [name |-> "CurrentWeatherSearchSchema", many |-> FALSE]],
     current_weather_group |->
        [uri |-> "/data/" \o _API_DATA_VERSION \o "/group",
         schema |-> [name |-> "CurrentWeatherSearchSchema", many |-> FALSE]],
     air_pollution_carbon_monoxide |->
        [uri |-> "/pollution/" \o _API_POLLUTION_VERSION \o "/co/",
         schema |-> [name |-> "AirPollutionCarbonMonoxydeSchema", many |-> FALSE]],
     air_pollution_ozone |->
        [uri |-> "/pollution/" \o _API_POLLUTION_VERSION \o "/o3/",
         schema |-> [name |-> "AirPollutionOzoneSchema", many |-> FALSE]],
     air_pollution_sulfur_dioxide |->
        [uri |-> "/pollution/" \o _API_POLLUTION_VERSION \o "/so2/",
         schema |-> [name |-> "AirPollutionSulfurDioxideSchema", many |-> FALSE]],
     air_pollution_nitrogen_dioxide |->
        [uri |-> "/pollution/" \o _API_POLLUTION_VERSION \o "/no2/",
         schema |-> [name |-> "AirPollutionNitrogenDioxideSchema", many |-> FALSE]],
     uv_index_current |->
        [uri |-> "/data/" \o _API_DATA_VERSION \o "/uvi",
         schema |-> [name |-> "UVIndexSchema", many |-> FALSE]],
     uv_index_forecast |->
        [uri |-> "/data/" \o _API_DATA_VERSION \o "/uvi/forecast",
         schema |-> [name |-> "UVIndexSchema", many |-> TRUE]],
     uv_index_historical |->
        [uri |-> "/data/" \o _API_DATA_VERSION \o "/uvi/history",
         schema |-> [name |-> "UVIndexSchema", many |-> TRUE]]]

----------------------------------------------------------------------------
(* Exceptions and responses *)

NoExc == [type |-> "none", msg |-> "", status_code |-> 0]

Exc(type, msg) == [type |-> type, msg |-> msg, status_code |-> 0]

\* requests.exceptions.HTTPError raised by raise_for_status: carries the response
HTTPError(status_code) ==
    [type |-> "HTTPError", msg |-> "", status_code |-> status_code]

\* the local variable `response` of _get: not yet bound, None, or a Response
Unbound == [kind |-> "unbound", status_code |-> 0]
NoneResponse == [kind |-> "None", status_code |-> 0]
Response(status_code) == [kind |-> "response", status_code |-> status_code]

----------------------------------------------------------------------------
(* __init__ *)

\* variant: `if not api_key`
KeyNotDefinedFalsy(api_key) == api_key = None \/ api_key = ""

\* `if api_key is None`
KeyNotDefined(api_key) == api_key = None

\* `host or _API_HOST`
HostOrDefault(host) == IF host = None \/ host = "" THEN _API_HOST ELSE host

\* variant: the scheme does not follow use_ssl
BaseUriAlwaysSsl(use_ssl, host) == "https://" \o host

\* 'http{ssl}://{host}'.format(ssl='s' if use_ssl else '', host=self.host)
BaseUri(use_ssl, host) ==
    "http" \o (IF use_ssl THEN "s" ELSE "") \o "://" \o host

\* the attributes __init__ sets when it does not raise
\* the records that __init__ logs: a debug record at its end; the `raise` for
\* a missing key comes without one
InitLog(api_key) == IF KeyNotDefined(api_key) THEN <<>> ELSE <<"debug">>

NewClient(api_key, kwargs) ==
    LET use_ssl == Kw(kwargs, "use_ssl", TRUE)
        host == HostOrDefault(Kw(kwargs, "host", _API_HOST))
        max_retries == Kw(kwargs, "max_retries", DEFAULT_MAX_RETRIES)
        units == Kw(kwargs, "units", DEFAULT_UNITS)
    IN  [api_key |-> api_key,
         host |-> host,
         max_retries |-> max_retries,
         units |-> units,
         _base_uri |-> BaseUri(use_ssl, host),
         _base_uri_params |-> <<<<"appid", S(api_key)>>, <<"units", S(units)>>>>,
         last_uri_call |-> None,
         last_uri_call_tries |-> 0]

----------------------------------------------------------------------------
(* _get *)

\* variant: the value is shown whatever the key
RedactNothing(k, v) == Str(v)

\* v if k != 'appid' else 'XxX'
Redact(k, v) == IF k # "appid" THEN Str(v) ELSE "XxX"

\* the human readable uri with query parameters built on entry of _get
LastUriCall(uri, kwargs) ==
    LET params == Kw(kwargs, "params", EmptyDict)
        shown == [i \in DOMAIN params |->
                    params[i][1] \o "=" \o Redact(params[i][1], params[i][2])]
    IN  Join(<<uri, Join(shown, "&")>>, "?")

\* variant: the loop goes on while the count has not passed max_retries
LoopCondUpTo(s, f) == ~f.is_success /\ s.last_uri_call_tries <= s.max_retries

\* `while not is_success and self.last_uri_call_tries < self.max_retries`
LoopCond(s, f) == ~f.is_success /\ s.last_uri_call_tries < s.max_retries

\* variant: the last try is recognised one attempt too late
LastTryStrict(tries, max_retries) == tries > max_retries

\* `if self.last_uri_call_tries >= self.max_retries`, as tested after a request
LastTry(tries, max_retries) == tries >= max_retries

\* Response.raise_for_status() of the requests library: raises HTTPError for
\* client and server error statuses (4xx and 5xx) and for nothing else
RaisesForStatus(status_code) == 400 <= status_code /\ status_code < 600

IdleFrame ==
    [pc |-> "idle", uri |-> "", kwargs |-> <<>>, is_success |-> FALSE,
     response |-> Unbound, exc |-> NoExc]

NoOutcome == [kind |-> "none", name |-> "", text |-> "", status_code |-> 0]
NoRequest == [uri |-> "", kwargs |-> <<>>]

\* nothing requested yet in this invocation
NoTraffic ==
    [requests |-> 0, failed |-> 0, bad_gateway |-> 0, first_ok |-> 0,
     last |-> NoOutcome, sent |-> NoRequest]

\* variant: the count of tries runs on from the previous invocation
GetEnterKeepsTries(s, uri, kwargs) ==
    [self |-> [s EXCEPT !.last_uri_call = LastUriCall(uri, kwargs)],
     frame |-> [pc |-> "while", uri |-> uri, kwargs |-> kwargs,
                is_success |-> FALSE, response |-> Unbound, exc |-> NoExc],
     net |-> NoTraffic]

\* entry of _get up to the first test of the loop
GetEnter(s, uri, kwargs) ==
    [self |-> [s EXCEPT !.last_uri_call = LastUriCall(uri, kwargs),
                        !.last_uri_call_tries = 0],
     frame |-> [pc |-> "while", uri |-> uri, kwargs |-> kwargs,
                is_success |-> FALSE, response |-> Unbound, exc |-> NoExc],
     net |-> NoTraffic]

\* the bookkeeping of one requests.get(uri, **kwargs) and its outcome
Observe(n, f, tries, outcome) ==
    [requests |-> n.requests + 1,
     failed |-> n.failed + (IF outcome.kind = "raise" THEN 1 ELSE 0),
     bad_gateway |-> n.bad_gateway +
        (IF outcome.kind = "response" /\ outcome.status_code = codes_bad_gateway
         THEN 1 ELSE 0),
     first_ok |-> IF n.first_ok = 0 /\ outcome.kind = "response"
                       /\ outcome.status_code = codes_ok
                  THEN n.requests + 1 ELSE n.first_ok,
     last |-> outcome,
     sent |-> [uri |-> f.uri, kwargs |-> f.kwargs]]

\* variant: a 200 that lands on the last allowed try is taken for exhaustion
OnResponseDropsLast(f, tries, max_retries, status_code) ==
    IF status_code = codes_ok /\ tries < max_retries
    THEN [f EXCEPT !.is_success = TRUE]
    ELSE IF tries >= max_retries
         THEN [f EXCEPT !.pc = "raised",
                        !.exc = IF status_code = codes_bad_gateway
                                THEN Exc("OWMClientAccessLimitationError", "")
                                ELSE HTTPError(status_code)]
         ELSE f

\* variant: an error status fails the call on whatever attempt it arrives
OnResponseFailsAtOnce(f, tries, max_retries, status_code) ==
    IF status_code # codes_ok
    THEN IF status_code = codes_bad_gateway /\ tries >= max_retries
         THEN [f EXCEPT !.pc = "raised",
                        !.exc = Exc("OWMClientAccessLimitationError", "")]
         ELSE IF status_code # codes_bad_gateway /\ 400 <= status_code
              THEN [f EXCEPT !.pc = "raised", !.exc = HTTPError(status_code)]
              ELSE f
    ELSE IF tries < max_retries
         THEN [f EXCEPT !.is_success = TRUE]
         ELSE f

\* what the body of the loop does with a response that is not None
OnResponse(f, tries, max_retries, status_code) ==
    IF status_code # codes_ok
    THEN IF LastTry(tries, max_retries)
         THEN IF status_code = codes_bad_gateway
              THEN [f EXCEPT !.pc = "raised",
                             !.exc = Exc("OWMClientAccessLimitationError",
                                "For example, OpenWeatherMap free edition only"
                                \o "allows 60 API calls per minute!")]
              ELSE IF RaisesForStatus(status_code)
                   THEN [f EXCEPT !.pc = "raised", !.exc = HTTPError(status_code)]
                   ELSE f
         ELSE f
    ELSE IF tries < max_retries
         THEN [f EXCEPT !.is_success = TRUE]
         ELSE f

\* variant: the first connection error or timeout is final
OnFailureNoRetry(f, tries, max_retries, text) ==
    [f EXCEPT !.response = NoneResponse, !.pc = "raised",
              !.exc = Exc("OpenWeatherMapClientError", text)]

\* what the except clause does with a connection error or a timeout
OnFailure(f, tries, max_retries, text) ==
    IF LastTry(tries, max_retries)
    THEN [f EXCEPT !.response = NoneResponse, !.pc = "raised",
                   !.exc = Exc("OpenWeatherMapClientError", text)]
    ELSE [f EXCEPT !.response = NoneResponse]

\* the records that one pass through the body of the loop logs, `tries` being
\* the count after its increment: a warning for a request that raised, then
\* an error when the client error is raised in its place; an error for the
\* access limitation; nothing before raise_for_status()
IterLog(tries, max_retries, outcome) ==
    IF outcome.kind = "raise"
    THEN <<"warning">>
         \o (IF LastTry(tries, max_retries) THEN <<"error">> ELSE <<>>)
    ELSE IF /\ outcome.status_code # codes_ok
            /\ LastTry(tries, max_retries)
            /\ outcome.status_code = codes_bad_gateway
         THEN <<"error">>
         ELSE <<>>

\* one pass through the body of the loop
GetIter(s, f, n, outcome) ==
    LET tries == s.last_uri_call_tries + 1
    IN  [self |-> [s EXCEPT !.last_uri_call_tries = tries],
         net |-> Observe(n, f, tries, outcome),
         frame |->
            IF outcome.kind = "raise"
            THEN OnFailure(f, tries, s.max_retries, outcome.text)
            ELSE OnResponse([f EXCEPT !.response = Response(outcome.status_code)],
                            tries, s.max_retries, outcome.status_code)]

\* `return response` once the loop test fails; an unbound local cannot be read
GetExit(s, f, n) ==
    [self |-> s,
     net |-> n,
     frame |-> IF f.response = Unbound
               THEN [f EXCEPT !.pc = "raised",
                              !.exc = Exc("UnboundLocalError", "response")]
               ELSE [f EXCEPT !.pc = "returned"]]

----------------------------------------------------------------------------
(* _get_data and the facade *)

\* urljoin(base, ref) for the two shapes the client uses: a base without path
\* joined with an absolute path, and a base ending in '/' joined with a
\* relative path
urljoin(base, ref) == base \o ref

\* `params or OrderedDict()`
ParamsOr(plan) ==
    IF "params" \in DOMAIN plan /\ plan.params # EmptyDict
    THEN plan.params ELSE EmptyDict

\* variant: 'units' is sent whatever with_units says
GetDataKeepsUnits(s, plan) ==
    LET service_info == _AVAILABLE_SERVICES[plan.service]
        uri0 == urljoin(s._base_uri, service_info.uri)
        uri == IF "extra_uri" \in DOMAIN plan
               THEN urljoin(uri0, plan.extra_uri) ELSE uri0
        query_params == Update(ParamsOr(plan), s._base_uri_params)
    IN  [self |-> s, uri |-> uri, kwargs |-> [params |-> query_params]]

\* variant: the parameters of the operation are added to those of the client
GetDataBaseFirst(s, plan) ==
    LET service_info == _AVAILABLE_SERVICES[plan.service]
        uri0 == urljoin(s._base_uri, service_info.uri)
        uri == IF "extra_uri" \in DOMAIN plan
               THEN urljoin(uri0, plan.extra_uri) ELSE uri0
        qp == Update(s._base_uri_params, ParamsOr(plan))
        query_params == IF plan.with_units THEN qp ELSE Pop(qp, "units")
    IN  [self |-> s, uri |-> uri, kwargs |-> [params |-> query_params]]

\* variant: 'units' is popped from the dict of the instance as well
GetDataSharesBase(s, plan) ==
    LET service_info == _AVAILABLE_SERVICES[plan.service]
        uri0 == urljoin(s._base_uri, service_info.uri)
        uri == IF "extra_uri" \in DOMAIN plan
               THEN urljoin(uri0, plan.extra_uri) ELSE uri0
        qp == Update(ParamsOr(plan), s._base_uri_params)
        query_params == IF plan.with_units THEN qp ELSE Pop(qp, "units")
    IN  [self |-> [s EXCEPT !._base_uri_params =
                                IF plan.with_units THEN @ ELSE Pop(@, "units")],
         uri |-> uri, kwargs |-> [params |-> query_params]]

\* _get_data up to its call of _get: the instance, which it leaves as it is,
\* and the uri and the keywords handed to _get
GetData(s, plan) ==
    LET service_info == _AVAILABLE_SERVICES[plan.service]
        uri0 == urljoin(s._base_uri, service_info.uri)
        uri == IF "extra_uri" \in DOMAIN plan
               THEN urljoin(uri0, plan.extra_uri) ELSE uri0
        qp == Update(ParamsOr(plan), s._base_uri_params)
        query_params == IF plan.with_units THEN qp ELSE Pop(qp, "units")
    IN  [self |-> s, uri |-> uri, kwargs |-> [params |-> query_params]]

\* variant: no search_type is refused
SearchTypeAny(search_type) == TRUE

\* `search_type in (None, 'like', 'accurate',)`
SearchTypeAccepted(search_type) == search_type \in {None, "like", "accurate"}

\* `cluster in (None, 'yes', 'no',)`
ClusterAccepted(cluster) == cluster \in {None, "yes", "no"}

\* variant: only a box that is too short is refused
BoxTooShort(box) == Len(box) < 4

\* `len(box) != 4`
BoxInvalid(box) == Len(box) # 4

\* variant: the twentieth city ID is one too many
TwentyIdsOrMore(city_ids) == Len(city_ids) >= 20

\* `len(city_ids) > 20`
TooManyIds(city_ids) == Len(city_ids) > 20

\* variant: cnt is capped at 50 and has no floor
ClampCntNoFloor(cnt) == IF cnt < 50 THEN cnt ELSE 50

\* `max(0, min(cnt, 50))`
ClampCnt(cnt) ==
    LET m == IF cnt < 50 THEN cnt ELSE 50
    IN  IF 0 > m THEN 0 ELSE m

\* [str(x) for x in xs]
Strs(xs) == [i \in DOMAIN xs |-> ToString(xs[i])]

\* '{}'.format(xs) of a list of ints
ListRepr(xs) == "[" \o Join(Strs(xs), ", ") \o "]"

\* variant: the country code travels under a key of its own
ByCityNameCountryKey(cl, service) ==
    LET query_params ==
            IF cl.country_code # None
            THEN <<<<"q", S(cl.city_name)>>, <<"zip", S(cl.country_code)>>>>
            ELSE <<<<"q", S(cl.city_name)>>>>
    IN  IF SearchTypeAccepted(cl.search_type)
        THEN [via |-> "_get_data", service |-> service,
              params |-> IF cl.search_type # None
                         THEN Update(query_params,
                                     <<<<"type", S(cl.search_type)>>>>)
                         ELSE query_params,
              with_units |-> TRUE]
        ELSE [via |-> "raise",
              exc |-> Exc("ValueError",
                          "Invalid search_type: " \o cl.search_type
                          \o ". Expected are: None/like/accurate.")]

\* the body shared by get_forecast_by_city_name and
\* get_current_weather_by_city_name
ByCityName(cl, service) ==
    LET q == IF cl.country_code # None
             THEN cl.city_name \o "," \o cl.country_code
             ELSE cl.city_name
        query_params == <<<<"q", S(q)>>>>
    IN  IF SearchTypeAccepted(cl.search_type)
        THEN [via |-> "_get_data", service |-> service,
              params |-> IF cl.search_type # None
                         THEN Update(query_params,
                                     <<<<"type", S(cl.search_type)>>>>)
                         ELSE query_params,
              with_units |-> TRUE]
        ELSE [via |-> "raise",
              exc |-> Exc("ValueError",
                          "Invalid search_type: " \o cl.search_type
                          \o ". Expected are: None/like/accurate.")]

\* `if cluster in (...) ... else: raise`, then `if lang is not None`, then the
\* delegation, as within_box and within_circle end
ClusterAndLang(cl, service, query_params) ==
    IF ClusterAccepted(cl.cluster)
    THEN LET qp1 == IF cl.cluster # None
                    THEN Update(query_params, <<<<"cluster", S(cl.cluster)>>>>)
                    ELSE query_params
             qp2 == IF cl.lang # None
                    THEN Update(qp1, <<<<"lang", S(cl.lang)>>>>)
                    ELSE qp1
         IN  [via |-> "_get_data", service |-> service, params |-> qp2,
              with_units |-> TRUE]
    ELSE [via |-> "raise",
          exc |-> Exc("ValueError",
                      "Invalid cluster: " \o cl.cluster
                      \o ". Expected are: None/yes/no.")]

\* no list was passed
NoList == <<>>

\* the list object `box` as get_current_weather_within_box leaves it to its
\* caller: `box.extend([zoom])` once the test of its length has passed
BoxAfter(cl) ==
    IF BoxInvalid(cl.box) THEN cl.box ELSE cl.box \o <<cl.zoom>>

get_current_weather_within_box(cl) ==
    IF BoxInvalid(cl.box)
    THEN [via |-> "raise",
          exc |-> Exc("ValueError", "Invalid box: " \o ListRepr(cl.box))]
    ELSE LET box == BoxAfter(cl)
         IN  ClusterAndLang(cl, "current_weather_box",
                            <<<<"bbox", S(Join(Strs(box), ","))>>>>)

get_current_weather_within_circle(cl) ==
    ClusterAndLang(cl, "current_weather_circle",
                   <<<<"lat", I(cl.latitude)>>, <<"lon", I(cl.longitude)>>,
                     <<"cnt", I(ClampCnt(cl.cnt))>>>>)

get_current_weather_group(cl) ==
    IF TooManyIds(cl.city_ids)
    THEN [via |-> "raise",
          exc |-> Exc("ValueError", "The limit of locations is 20.")]
    ELSE [via |-> "_get_data", service |-> "current_weather_group",
          params |-> <<<<"id", S(Join(Strs(cl.city_ids), ","))>>>>,
          with_units |-> TRUE]

\* the body shared by the four get_air_pollution_* methods
AirPollution(cl, service) ==
    [via |-> "_get_data", service |-> service,
     extra_uri |-> Str(I(cl.latitude)) \o "," \o Str(I(cl.longitude))
                   \o "/" \o cl.datetime \o ".json",
     with_units |-> TRUE]

\* a facade method up to its delegation
Facade(cl) ==
    CASE cl.op = "get_city_list" ->
            [via |-> "_get", uri |-> _AVAILABLE_SERVICES.city_list.uri,
             kwargs |-> [stream |-> TRUE]]
      [] cl.op = "get_forecast_by_city_id" ->
            [via |-> "_get_data", service |-> "forecast_5d",
             params |-> <<<<"id", I(cl.city_id)>>>>, with_units |-> TRUE]
      [] cl.op = "get_current_weather_by_coord" ->
            [via |-> "_get_data", service |-> "current_weather",
             params |-> <<<<"lat", I(cl.latitude)>>, <<"lon", I(cl.longitude)>>>>,
             with_units |-> TRUE]
      [] cl.op = "get_air_pollution_ozone" ->
            [via |-> "_get_data", service |-> "air_pollution_ozone",
             extra_uri |-> Str(I(cl.latitude)) \o "," \o Str(I(cl.longitude))
                           \o "/" \o cl.datetime \o ".json",
             with_units |-> TRUE]
      [] cl.op = "get_uv_index_current" ->
            [via |-> "_get_data", service |-> "uv_index_current",
             params |-> <<<<"lat", I(cl.latitude)>>, <<"lon", I(cl.longitude)>>>>,
             with_units |-> FALSE]
      [] cl.op = "get_forecast_by_coord" ->
            [via |-> "_get_data", service |-> "forecast_5d",
             params |-> <<<<"lat", I(cl.latitude)>>, <<"lon", I(cl.longitude)>>>>,
             with_units |-> TRUE]
      [] cl.op = "get_forecast_by_city_name" -> ByCityName(cl, "forecast_5d")
      [] cl.op = "get_forecast_by_zip_code" ->
            [via |-> "_get_data", service |-> "forecast_5d",
             params |-> <<<<"zip", S(cl.zip_code \o "," \o cl.country_code)>>>>,
             with_units |-> TRUE]
      [] cl.op = "get_current_weather_by_city_id" ->
            [via |-> "_get_data", service |-> "current_weather",
             params |-> <<<<"id", I(cl.city_id)>>>>, with_units |-> TRUE]
      [] cl.op = "get_current_weather_by_city_name" ->
            ByCityName(cl, "current_weather")
      [] cl.op = "get_current_weather_by_zip_code" ->
            [via |-> "_get_data", service |-> "current_weather",
             params |-> <<<<"zip", S(cl.zip_code \o "," \o cl.country_code)>>>>,
             with_units |-> TRUE]
      [] cl.op = "get_current_weather_within_box" ->
            get_current_weather_within_box(cl)
      [] cl.op = "get_current_weather_within_circle" ->
            get_current_weather_within_circle(cl)
      [] cl.op = "get_current_weather_group" -> get_current_weather_group(cl)
      [] cl.op = "get_air_pollution_carbon_monoxide" ->
            AirPollution(cl, "air_pollution_carbon_monoxide")
      [] cl.op = "get_air_pollution_sulfur_dioxide" ->
            AirPollution(cl, "air_pollution_sulfur_dioxide")
      [] cl.op = "get_air_pollution_nitrogen_dioxide" ->
            AirPollution(cl, "air_pollution_nitrogen_dioxide")
      [] cl.op = "get_uv_index_forecast" ->
            [via |-> "_get_data", service |-> "uv_index_forecast",
             params |-> <<<<"lat", I(cl.latitude)>>, <<"lon", I(cl.longitude)>>>>,
             with_units |-> FALSE]
      [] cl.op = "get_uv_index_historical" ->
            [via |-> "_get_data", service |-> "uv_index_historical",
             params |-> <<<<"lat", I(cl.latitude)>>, <<"lon", I(cl.longitude)>>,
                          <<"start", F(cl.dt_start)>>, <<"end", F(cl.dt_end)>>>>,
             with_units |-> FALSE]

\* the uri and keywords with which a facade call reaches _get
Delegate(s, cl) ==
    LET plan == Facade(cl)
    IN  IF plan.via = "_get"
        THEN [self |-> s, uri |-> plan.uri, kwargs |-> plan.kwargs]
        ELSE GetData(s, plan)

----------------------------------------------------------------------------
(* The schemas, and _get_data after _get has returned *)

\* a datetime (an instant, by its UNIX timestamp), a dict, a list and None
\* stored in a dict
Instant(ts) == [t |-> "datetime", v |-> ts]
M(d) == [t |-> "dict", v |-> d]
L(items) == [t |-> "list", v |-> items]
Null == [t |-> "NoneType", v |-> 0]

\* bool(v) is False
Falsy(v) ==
    \/ v.t = "NoneType"
    \/ v.t \in {"dict", "list"} /\ DOMAIN v.v = {}

\* a declared field: its name, its load_from key (None when it has none), the
\* class of the field and, for Nested and List(Nested), the schema nested
Field(name, load_from, type) ==
    [name |-> name, load_from |-> load_from, type |-> type, schema |-> None]

Nested(name, load_from, schema) ==
    [name |-> name, load_from |-> load_from, type |-> "Nested",
     schema |-> schema]

ListOfNested(name, load_from, schema) ==
    [name |-> name, load_from |-> load_from, type |-> "List",
     schema |-> schema]

\* the fields that the air pollution schemas inherit
AirPollutionBaseSchema ==
    {Field("time", None, "DateTime"),
     Field("time_iso8601", "time", "String"),
     Nested("location", None, "AirPollutionLocationSchema")}

\* the fields that the schemas declare, by schema name
Schemas ==
    [CityCoordSchema |->
        {Field("latitude", "lat", "Float"),
         Field("longitude", "lon", "Float")},
     CitySchema |->
        {Field("id", None, "Integer"),
         Field("name", None, "String"),
         Field("country", None, "String"),
         Nested("coord", None, "CityCoordSchema")},
     MainDataSchema |->
        {Field("temp", None, "Float"),
         Field("temp_min", None, "Float"),
         Field("temp_max", None, "Float"),
         Field("humidity", None, "Float"),
         Field("pressure", None, "Float"),
         Field("sea_level", None, "Float"),
         Field("grnd_level", None, "Float")},
     WindDataSchema |->
        {Field("direction", "deg", "Float"),
         Field("speed", None, "Float")},
     WeatherDataSchema |->
        {Field("id", None, "Integer"),
         Field("main", None, "String"),
         Field("description", None, "String"),
         Field("icon", None, "String")},
     CloudDataSchema |->
        {Field("clouds_all", None, "Integer")},
     RainDataSchema |->
        {Field("rain_3h", None, "Float")},
     SnowDataSchema |->
        {Field("snow_3h", None, "Float")},
     ForecastDataSchema |->
        {Field("dt_value", "dt", "Method"),
         Field("dt_timestamp", "dt", "Integer"),
         Field("dt_txt", None, "String"),
         Nested("main", None, "MainDataSchema"),
         ListOfNested("weather", None, "WeatherDataSchema"),
         Nested("clouds", None, "CloudDataSchema"),
         Nested("wind", None, "WindDataSchema"),
         Nested("rain", None, "RainDataSchema"),
         Nested("snow", None, "SnowDataSchema")},
     ForecastSchema |->
        {Nested("city", None, "CitySchema"),
         Field("cnt", None, "Integer"),
         ListOfNested("datas", "list", "ForecastDataSchema")},
     CurrentWeatherSysDataSchema |->
        {Field("country", None, "String"),
         Field("sunrise", None, "Method"),
         Field("sunset", None, "Method"),
         Field("sunrise_timestamp", "sunrise", "Integer"),
         Field("sunset_timestamp", "sunset", "Integer")},
     CurrentWeatherSchema |->
        {Field("city_id", "id", "Integer"),
         Field("city_name", "name", "String"),
         Nested("city_coord", "coord", "CityCoordSchema"),
         Field("dt_value", "dt", "Method"),
         Field("dt_timestamp", "dt", "Integer"),
         Nested("main", None, "MainDataSchema"),
         ListOfNested("weather", None, "WeatherDataSchema"),
         Nested("clouds", None, "CloudDataSchema"),
         Nested("wind", None, "WindDataSchema"),
         Nested("rain", None, "RainDataSchema"),
         Nested("snow", None, "SnowDataSchema"),
         Nested("sys", None, "CurrentWeatherSysDataSchema")},
     CurrentWeatherSearchSchema |->
        {Field("status_code", "cod", "Integer"),
         Field("calc_time", None, "Float"),
         Field("cnt", None, "Integer"),
         ListOfNested("datas", "list", "CurrentWeatherSchema")},
     UVIndexSchema |->
        {Field("latitude", "lat", "Float"),
         Field("longitude", "lon", "Float"),
         Field("date", "date_iso", "DateTime"),
         Field("date_iso", None, "String"),
         Field("dt_timestamp", "date", "Integer"),
         Field("value", None, "Float")},
     AirPollutionLocationSchema |->
        {Field("latitude", None, "Float"),
         Field("longitude", None, "Float")},
     AirPollutionCarbonMonoxydeDataSchema |->
        {Field("precision", None, "Float"),
         Field("pressure", None, "Float"),
         Field("value", None, "Float")},
     AirPollutionCarbonMonoxydeSchema |->
        AirPollutionBaseSchema
        \cup {ListOfNested("datas", "data",
                           "AirPollutionCarbonMonoxydeDataSchema")},
     AirPollutionOzoneSchema |->
        AirPollutionBaseSchema \cup {Field("data", None, "Float")},
     AirPollutionSulfurDioxideDataSchema |->
        {Field("precision", None, "Float"),
         Field("pressure", None, "Float"),
         Field("value", None, "Float")},
     AirPollutionSulfurDioxideSchema |->
        AirPollutionBaseSchema
        \cup {ListOfNested("datas", "data",
                           "AirPollutionSulfurDioxideDataSchema")},
     AirPollutionNitrogenDioxideItemDataSchema |->
        {Field("precision", None, "Float"),
         Field("value", None, "Float")},
     AirPollutionNitrogenDioxideItemSchema |->
        {Nested("no2", None, "AirPollutionNitrogenDioxideItemDataSchema"),
         Nested("no2_strat", None, "AirPollutionNitrogenDioxideItemDataSchema"),
         Nested("no2_trop", None, "AirPollutionNitrogenDioxideItemDataSchema")},
     AirPollutionNitrogenDioxideSchema |->
        AirPollutionBaseSchema
        \cup {Nested("data", None, "AirPollutionNitrogenDioxideItemSchema")}]

\* no schema class sets Meta.strict and none is instantiated with strict=True
Strict(schema_name) == FALSE

\* variant: the loader looks a field up under its name only
RawKeyNameOnly(field, raw) ==
    IF field.name \in Keys(raw) THEN field.name ELSE None

\* the key under which the loader finds the raw value of a field: the name of
\* the field, else its load_from key; None when the body has neither
RawKey(field, raw) ==
    IF field.name \in Keys(raw) THEN field.name
    ELSE IF field.load_from # None /\ field.load_from \in Keys(raw)
         THEN field.load_from
         ELSE None

\* the ISO 8601 texts drawn, and the instant each of them denotes
IsoTexts == {"2017-06-21T12:59:13Z", "2017-06-26T12:59:51Z"}

\* ma.utils.from_iso_datetime on a text of IsoTexts
from_iso_datetime(text) ==
    IF text = "2017-06-21T12:59:13Z" THEN Instant(1498049953) ELSE Instant(1498481991)

\* utils.dt_from_timestamp(timestamp, ts_tz=utc): the instant of the timestamp
dt_from_timestamp(timestamp) == Instant(timestamp)

\* what the deserialization of one raw value by a field comes to: a value, a
\* ValidationError (carrying the data that could be loaded, Null when there
\* is none) or another exception
Value(v) == [kind |-> "value", value |-> v, exc |-> NoExc]
Invalid(data) == [kind |-> "invalid", value |-> data, exc |-> NoExc]
Raised(exc) == [kind |-> "raise", value |-> Null, exc |-> exc]

\* what a Nested field makes of the load of its schema: the exception that is
\* no ValidationError goes through, errors make a ValidationError that
\* carries the data loaded
OfNested(loaded) ==
    IF loaded.exc # NoExc THEN Raised(loaded.exc)
    ELSE IF loaded.errors # {} THEN Invalid(M(loaded.data))
    ELSE Value(M(loaded.data))

\* what a List field makes of the deserialization of its items
OfList(each) ==
    IF each.exc # NoExc THEN Raised(each.exc)
    ELSE IF each.errors THEN Invalid(L(each.data))
    ELSE Value(L(each.data))

\* the list of what each item gave, whether one of them was invalid, and the
\* exception raised, from the first item and from the rest
OfItems(head, tail) ==
    IF head.kind = "raise"
    THEN [data |-> <<>>, errors |-> FALSE, exc |-> head.exc]
    ELSE [data |-> <<head.value>> \o tail.data,
          errors |-> head.kind = "invalid" \/ tail.errors,
          exc |-> tail.exc]

\* the result of load from what each field found in the raw mapping gave:
\* `data` holds the fields that gave a value (for an invalid field, the data
\* its ValidationError carries, unless it is falsy), `errors` names the
\* invalid fields, `exc` is the exception that is no ValidationError
OfFields(des) ==
    LET found == DOMAIN des
        raising == {f \in found : des[f].kind = "raise"}
        invalid == {f \in found : des[f].kind = "invalid"}
        kept == {f \in found :
                    \/ des[f].kind = "value"
                    \/ des[f].kind = "invalid" /\ ~Falsy(des[f].value)}
    IN  [data |-> [n \in {f.name : f \in kept} |->
                    des[CHOOSE g \in kept : g.name = n].value],
         errors |-> {f.name : f \in invalid},
         exc |-> IF raising = {} THEN NoExc
                 ELSE des[CHOOSE f \in raising : TRUE].exc]

RECURSIVE Load(_, _)
RECURSIVE LoadEach(_, _)

\* field.deserialize(v): an Integer field takes a number and makes an int of
\* it (the texts drawn are not numerals), a Float field takes a number and
\* makes a float of it, a String field takes a str, a DateTime field takes an
\* ISO 8601 text and gives its instant, a Method field hands the value to
\* _from_ts, which gives the instant of a number and raises TypeError on
\* anything else; a Nested field loads a dict with its schema and a List
\* field loads each item of a list
Deserialize(field, v) ==
    CASE field.type = "Integer" ->
            IF v.t \in {"int", "float"} THEN Value(I(v.v)) ELSE Invalid(Null)
      [] field.type = "Float" ->
            IF v.t \in {"int", "float"} THEN Value(F(v.v)) ELSE Invalid(Null)
      [] field.type = "String" ->
            IF v.t = "str" THEN Value(v) ELSE Invalid(Null)
      [] field.type = "DateTime" ->
            IF v.t = "str" /\ v.v \in IsoTexts
            THEN Value(from_iso_datetime(v.v))
            ELSE Invalid(Null)
      [] field.type = "Method" ->
            IF v.t \in {"int", "float"}
            THEN Value(dt_from_timestamp(v.v))
            ELSE Raised(Exc("TypeError", "an integer is required"))
      [] field.type = "Nested" ->
            IF v.t # "dict" THEN Invalid(Null)
            ELSE OfNested(Load(field.schema, v.v))
      [] field.type = "List" ->
            IF v.t # "list" THEN Invalid(Null)
            ELSE OfList(LoadEach(field.schema, v.v))

\* the items of a list, each deserialized by Nested(schema)
LoadEach(schema_name, items) ==
    IF items = <<>> THEN [data |-> <<>>, errors |-> FALSE, exc |-> NoExc]
    ELSE OfItems(Deserialize(Nested("", None, schema_name), Head(items)),
                 LoadEach(schema_name, Tail(items)))

\* data_schema.load(raw) of a schema that is not strict: every field that is
\* found in raw is deserialized; unknown keys of raw are ignored
Load(schema_name, raw) ==
    OfFields([f \in {g \in Schemas[schema_name] : RawKey(g, raw) # None} |->
                Deserialize(f, Get(raw, RawKey(f, raw)))])

\* _deserialize_with_schema: load(json_data)[0]; load raises ValidationError
\* on errors only when the schema is strict, and what is not a
\* ValidationError goes through the except clause
DeserializeWithSchema(data_schema_info, json_data) ==
    LET loaded == Load(data_schema_info.name, json_data)
    IN  IF loaded.exc # NoExc
        THEN [kind |-> "raise", exc |-> loaded.exc]
        ELSE IF Strict(data_schema_info.name) /\ loaded.errors # {}
        THEN [kind |-> "raise",
              exc |-> Exc("OWMClientValidationError", "ValidationError")]
        ELSE [kind |-> "return", value |-> loaded.data]

\* what separates the error from the URI in the message: the characters
\* U+00C2 and U+00A0, written here as escapes, then ' on GET '
ON_GET == "\\u00c2\\u00a0 on GET "

\* variant: the body is deserialized without a look at its 'error' key
GetDataReturnNoErrorCheck(s, service_info, resp_data) ==
    DeserializeWithSchema(service_info.schema, resp_data)

\* _get_data from `resp_data = response.json()` on
GetDataReturn(s, service_info, resp_data) ==
    IF "error" \in Keys(resp_data)
    THEN [kind |-> "raise",
          exc |-> Exc("OpenWeatherMapClientError",
                      Str(Get(resp_data, "error")) \o ON_GET \o s.last_uri_call)]
    ELSE DeserializeWithSchema(service_info.schema, resp_data)

\* the records that a facade method logs before _get_data: a warning with the
\* ValueError that it raises
FacadeLog(plan) == IF plan.via = "raise" THEN <<"warning">> ELSE <<>>

\* the records that _get_data and _deserialize_with_schema log once the
\* response is there: an error with the client error for an 'error' key and
\* with the validation error
ReturnLog(go) ==
    IF /\ go.kind = "raise"
       /\ go.exc.type \in {"OpenWeatherMapClientError",
                           "OWMClientValidationError"}
    THEN <<"error">>
    ELSE <<>>

\* a facade method raises ValueError on its arguments: nothing of the instance
\* is touched and _get is not entered
Reject(s, exc) ==
    [self |-> s,
     frame |-> [IdleFrame EXCEPT !.pc = "rejected", !.exc = exc],
     net |-> NoTraffic]

----------------------------------------------------------------------------
(* Inputs *)

ApiKeys == {None, "", "ae0c16c7a7c591f9d88e50954c9b2c0b"}

UseSslArgs == {FALSE}
HostArgs == {"", "samples.openweathermap.org"}
MaxRetriesArgs == -1 .. MaxRetriesArg
UnitsArgs == {"standard"}

KwNames == {"use_ssl", "host", "max_retries", "units"}

\* every choice of keywords for __init__, each keyword given or left out
CtorKwargs ==
    {[k \in D |-> full[k]] :
        full \in [use_ssl : UseSslArgs, host : HostArgs,
                  max_retries : MaxRetriesArgs, units : UnitsArgs],
        D \in SUBSET KwNames}

StatusCodes == {200, 204, 401, 502}

\* what requests.get can do: raise a connection error or a timeout, or answer
Outcomes ==
    {[kind |-> "raise", name |-> "ConnectionError",
      text |-> "connection refused", status_code |-> 0],
     [kind |-> "raise", name |-> "Timeout",
      text |-> "read timed out", status_code |-> 0]}
    \cup {[kind |-> "response", name |-> "", text |-> "", status_code |-> c] :
            c \in StatusCodes}

Calls ==
    {[op |-> "get_city_list"],
     [op |-> "get_forecast_by_city_id", city_id |-> 6434841],
     [op |-> "get_current_weather_by_coord", latitude |-> 44, longitude |-> 1],
     [op |-> "get_air_pollution_ozone", latitude |-> 44, longitude |-> 1,
      datetime |-> "current"],
     [op |-> "get_uv_index_current", latitude |-> 37, longitude |-> -122]}

\* the keys and the keywords for __init__ with which the whole facade is
\* exercised
FacadeApiKeys == {None, "ae0c16c7a7c591f9d88e50954c9b2c0b"}

FacadeCtorKwargs ==
    {[max_retries |-> 0],
     [max_retries |-> 2, units |-> "standard"],
     [use_ssl |-> FALSE, host |-> "samples.openweathermap.org",
      max_retries |-> 1]}

CountryCodes == {None, "FR"}
SearchTypes == {None, "like", "accurate", "exact"}
Clusters == {None, "yes", "no", "maybe"}
Boxes == {<<12, 32, 15>>, <<12, 32, 15, 37>>, <<12, 32, 15, 37, 10>>}
CntArgs == {-5, 0, 10, 50, 51, 1000}

\* a list of n city IDs
CityIds(n) == [i \in 1 .. n |-> 6434840 + i]

CityIdsArgs == {CityIds(n) : n \in {0, 1, 2} \cup (19 .. MaxCityIds)}

\* calls of every facade method, with arguments that are accepted and
\* arguments that are refused
FacadeCalls ==
    Calls
    \cup {[op |-> "get_forecast_by_coord", latitude |-> 44, longitude |-> 1],
          [op |-> "get_forecast_by_zip_code", zip_code |-> "46800",
           country_code |-> "FR"],
          [op |-> "get_current_weather_by_city_id", city_id |-> 6434841],
          [op |-> "get_current_weather_by_zip_code", zip_code |-> "46800",
           country_code |-> "FR"],
          [op |-> "get_air_pollution_carbon_monoxide", latitude |-> 44,
           longitude |-> 1, datetime |-> "current"],
          [op |-> "get_air_pollution_sulfur_dioxide", latitude |-> 44,
           longitude |-> 1, datetime |-> "current"],
          [op |-> "get_air_pollution_nitrogen_dioxide", latitude |-> 44,
           longitude |-> 1, datetime |-> "current"],
          [op |-> "get_uv_index_forecast", latitude |-> 37, longitude |-> -122],
          [op |-> "get_uv_index_historical", latitude |-> 37, longitude |-> -122,
           dt_start |-> 1498049953, dt_end |-> 1498481991]}
    \cup {[op |-> "get_forecast_by_city_name", city_name |-> "Montcuq",
           country_code |-> cc, search_type |-> st] :
            cc \in CountryCodes, st \in SearchTypes}
    \cup {[op |-> "get_current_weather_by_city_name", city_name |-> "Montcuq",
           country_code |-> "FR", search_type |-> st] : st \in SearchTypes}
    \cup {[op |-> "get_current_weather_within_box", box |-> b, zoom |-> 10,
           cluster |-> cl, lang |-> None] :
            b \in Boxes, cl \in {None, "maybe"}}
    \cup {[op |-> "get_current_weather_within_box", box |-> <<12, 32, 15, 37>>,
           zoom |-> 10, cluster |-> cl, lang |-> "fr"] :
            cl \in {"yes", "no"}}
    \cup {[op |-> "get_current_weather_within_circle", latitude |-> 44,
           longitude |-> 1, cluster |-> None, cnt |-> n, lang |-> None] :
            n \in CntArgs}
    \cup {[op |-> "get_current_weather_within_circle", latitude |-> 44,
           longitude |-> 1, cluster |-> cl, cnt |-> 10, lang |-> "fr"] :
            cl \in Clusters}
    \cup {[op |-> "get_current_weather_group", city_ids |-> ids] :
            ids \in CityIdsArgs}

\* the keywords for __init__ and the calls with which the handling of the
\* response body is exercised
DataCtorKwargs == {[max_retries |-> 1], [max_retries |-> 2, units |-> "standard"]}

DataCalls ==
    {[op |-> "get_forecast_by_city_id", city_id |-> 6434841],
     [op |-> "get_current_weather_by_coord", latitude |-> 44, longitude |-> 1]}

\* JSON objects that a response can hold: one whose values fit the schemas,
\* one with values that do not fit the Integer fields, one with an 'error'
\* key
Bodies ==
    {<<<<"id", I(2992790)>>, <<"name", S("Montcuq")>>, <<"cnt", I(40)>>>>,
     <<<<"id", S("n/a")>>, <<"name", S("Montcuq")>>, <<"cnt", S("many")>>>>,
     <<<<"cod", S("404")>>, <<"error", S("city not found")>>>>}

\* what requests.get can do, the body of the response included
DataOutcomes ==
    {[kind |-> "raise", name |-> "ConnectionError",
      text |-> "connection refused", status_code |-> 0, body |-> EmptyDict]}
    \cup {[kind |-> "response", name |-> "", text |-> "", status_code |-> c,
           body |-> b] : c \in StatusCodes, b \in Bodies}

\* the raw values drawn for the keys of a mapping handed to a schema
RawValues ==
    {I(12), I(1498049953), F(37), S("Montcuq"), S("2017-06-21T12:59:13Z"),
     M(<<<<"lat", I(12)>>, <<"lon", F(37)>>>>),
     M(<<<<"lat", S("north")>>>>),
     L(<<M(<<<<"dt", I(1498049953)>>>>), M(<<<<"id", I(2992790)>>>>)>>),
     L(<<>>)}

\* the keys that a schema knows, and one that it does not
KnownKeys(schema_name) ==
    {f.name : f \in Schemas[schema_name]}
    \cup ({f.load_from : f \in Schemas[schema_name]} \ {None})

\* the raw mappings handed to a schema: one key, known or not, with each
\* value; and, for a renamed field, its load_from key together with its name
SchemaRaws(schema_name) ==
    {<<<<k, v>>>> : k \in KnownKeys(schema_name) \cup {"unknown"},
                   v \in RawValues}
    \cup {<<<<f.load_from, v>>, <<f.name, S("Montcuq")>>>> :
            f \in {g \in Schemas[schema_name] : g.load_from # None},
            v \in {I(12), S("2017-06-26T12:59:51Z")}}

\* _deserialize_with_schema(data_schema_info, json_data), as it is called
LoadCalls ==
    UNION {{[op |-> "_deserialize_with_schema",
             data_schema_info |-> [name |-> n, many |-> FALSE],
             json_data |-> raw] : raw \in SchemaRaws(n)} :
           n \in DOMAIN Schemas}

\* the calls of get_current_weather_within_box, each with a list of its own
BoxCalls == {cl \in FacadeCalls : cl.op = "get_current_weather_within_box"}

\* two callers, each calling at most MaxSharedCalls times, on clients whose
\* max_retries is at least 1
SharedApiKey == "ae0c16c7a7c591f9d88e50954c9b2c0b"

SharedCtorKwargs == {[max_retries |-> n] : n \in 1 .. MaxRetriesArg}

SharedCalls == {[op |-> "get_forecast_by_city_id", city_id |-> 6434841]}

SharedOutcomes ==
    {o \in Outcomes :
        o.name # "Timeout" /\ o.status_code # codes_bad_gateway}

\* each caller has its own instance, has made no call and has met no write
\* of another caller
NoSharing ==
    [shared |-> FALSE, calls |-> [c \in Clients |-> 0],
     disturbed |-> [c \in Clients |-> FALSE]]

\* max_retries alone, given explicitly
LoopCtorKwargs == {[max_retries |-> n] : n \in MaxRetriesArgs}

NoCtor == [called |-> FALSE, api_key |-> [c \in Clients |-> None], kwargs |-> <<>>]
NoCall == [op |-> "none"]

\* no invocation of _get yet
NoGet == [uri |-> None, kwargs |-> <<>>, requests |-> 0]

\* the facade call has returned nothing (yet)
NoResult == [kind |-> "none"]

----------------------------------------------------------------------------
(* The state machine *)

Init ==
    /\ obj = [c \in Clients |-> "none"]
    /\ self = [c \in Clients |-> NoAttrs]
    /\ frame = [c \in Clients |-> IdleFrame]
    /\ net = [c \in Clients |-> NoTraffic]
    /\ ctor = NoCtor
    /\ call = NoCall
    /\ reached = [c \in Clients |-> NoGet]
    /\ result = [c \in Clients |-> NoResult]
    /\ log = [c \in Clients |-> <<>>]
    /\ held = NoList
    /\ sharing = NoSharing

Live == {c \in Clients : obj[c] = "constructed"}

\* client = OpenWeatherMapClient(api_key, **kwargs), once per client, with the
\* keys drawn from api_keys and the keywords from kws
ConstructWith(api_keys, kws) ==
    /\ ~ctor.called
    /\ \E keys \in [Clients -> api_keys], kwargs \in kws :
        /\ ctor' = [called |-> TRUE, api_key |-> keys, kwargs |-> kwargs]
        /\ obj' = [c \in Clients |->
                    IF KeyNotDefined(keys[c]) THEN "failed" ELSE "constructed"]
        /\ self' = [c \in Clients |->
                    IF KeyNotDefined(keys[c]) THEN NoAttrs
                    ELSE NewClient(keys[c], kwargs)]
        /\ frame' = [c \in Clients |->
                    IF KeyNotDefined(keys[c])
                    THEN [IdleFrame EXCEPT
                            !.exc = Exc("OWMClientKeyNotDefinedError", "")]
                    ELSE IdleFrame]
        /\ log' = [c \in Clients |-> InitLog(keys[c])]
    /\ UNCHANGED <<net, call, reached, result, held, sharing>>

Construct == ConstructWith(ApiKeys, CtorKwargs)

\* a facade method, drawn from calls, is called once the previous call is over
\* (its position is in resting): it raises ValueError on its arguments, or runs
\* up to the first test of the loop of _get
CallOf(calls, resting) ==
    /\ Live # {}
    /\ \A c \in Live : frame[c].pc \in resting
    /\ \E cl \in calls :
        LET plan == Facade(cl)
            go(c) == IF plan.via = "raise"
                     THEN Reject(self[c], plan.exc)
                     ELSE LET d == Delegate(self[c], cl)
                          IN  GetEnter(d.self, d.uri, d.kwargs)
        IN  /\ call' = cl
            /\ self' = [c \in Clients |-> IF c \in Live THEN go(c).self ELSE self[c]]
            /\ frame' = [c \in Clients |-> IF c \in Live THEN go(c).frame ELSE frame[c]]
            /\ net' = [c \in Clients |-> IF c \in Live THEN go(c).net ELSE net[c]]
            /\ reached' = [c \in Clients |->
                            IF c \in Live /\ plan.via # "raise"
                            THEN [uri |-> go(c).frame.uri,
                                  kwargs |-> go(c).frame.kwargs, requests |-> 0]
                            ELSE reached[c]]
            /\ result' = [c \in Clients |-> NoResult]
            /\ log' = [c \in Clients |->
                        IF c \in Live THEN FacadeLog(plan) ELSE log[c]]
            /\ held' = IF cl.op = "get_current_weather_within_box"
                       THEN BoxAfter(cl) ELSE NoList
    /\ UNCHANGED <<obj, ctor, sharing>>

Call == CallOf(Calls, {"idle", "returned", "raised"})

\* the loop test holds: one request is made and its outcome, drawn from
\* outcomes, is handled
AttemptOf(outcomes) ==
    LET ready == {c \in Live : frame[c].pc = "while" /\ LoopCond(self[c], frame[c])}
    IN  /\ ready # {}
        /\ \E outcome \in outcomes :
            LET go(c) == GetIter(self[c], frame[c], net[c], outcome)
            IN  /\ self' = [c \in Clients |-> IF c \in ready THEN go(c).self ELSE self[c]]
                /\ frame' = [c \in Clients |-> IF c \in ready THEN go(c).frame ELSE frame[c]]
                /\ net' = [c \in Clients |-> IF c \in ready THEN go(c).net ELSE net[c]]
                /\ log' = [c \in Clients |->
                            IF c \in ready
                            THEN log[c] \o IterLog(go(c).self.last_uri_call_tries,
                                                   self[c].max_retries, outcome)
                            ELSE log[c]]
        /\ reached' = [c \in Clients |->
                        IF c \in ready
                        THEN [reached[c] EXCEPT !.requests = @ + 1]
                        ELSE reached[c]]
        /\ UNCHANGED <<obj, ctor, call, result, held, sharing>>

Attempt == AttemptOf(Outcomes)

\* the loop test fails: _get returns
Exit ==
    LET ready == {c \in Live : frame[c].pc = "while" /\ ~LoopCond(self[c], frame[c])}
    IN  /\ ready # {}
        /\ frame' = [c \in Clients |->
                        IF c \in ready
                        THEN GetExit(self[c], frame[c], net[c]).frame
                        ELSE frame[c]]
        /\ UNCHANGED <<obj, self, net, ctor, call, reached, result, log, held, sharing>>

Next == Construct \/ Call \/ Attempt \/ Exit

Spec == Init /\ [][Next]_vars

\* _get has returned its response to _get_data, which reads the body, raises
\* on an 'error' key and deserializes otherwise
Finish ==
    LET ready == {c \in Live : frame[c].pc = "returned"}
    IN  /\ ready # {}
        /\ Facade(call).via = "_get_data"
        /\ LET go(c) == GetDataReturn(self[c],
                                      _AVAILABLE_SERVICES[Facade(call).service],
                                      net[c].last.body)
           IN  /\ frame' = [c \in Clients |->
                            IF c \notin ready THEN frame[c]
                            ELSE IF go(c).kind = "raise"
                                 THEN [frame[c] EXCEPT !.pc = "raised",
                                                       !.exc = go(c).exc]
                                 ELSE [frame[c] EXCEPT !.pc = "done"]]
               /\ result' = [c \in Clients |->
                            IF c \in ready /\ go(c).kind = "return"
                            THEN [kind |-> "record", value |-> go(c).value]
                            ELSE result[c]]
               /\ log' = [c \in Clients |->
                            IF c \in ready THEN log[c] \o ReturnLog(go(c))
                            ELSE log[c]]
        /\ UNCHANGED <<obj, self, net, ctor, call, reached, held, sharing>>

\* the retry loop alone, max_retries being the one keyword given, when every
\* request comes to an outcome and the interpreter goes on to the next
\* statement
LoopConstruct == ConstructWith(FacadeApiKeys, LoopCtorKwargs)

LoopNext == LoopConstruct \/ Call \/ Attempt \/ Exit

SpecLoop ==
    Init /\ [][LoopNext]_vars /\ WF_vars(Attempt) /\ WF_vars(Exit)

\* the whole facade, on clients built with a few choices of keywords
FacadeConstruct == ConstructWith(FacadeApiKeys, FacadeCtorKwargs)

FacadeCall == CallOf(FacadeCalls, {"idle", "returned", "raised", "rejected"})

FacadeNext == FacadeConstruct \/ FacadeCall \/ Attempt \/ Exit

SpecFacade == Init /\ [][FacadeNext]_vars

\* the operations that go through _get_data, followed to their end, with
\* responses that have a body
DataConstruct == ConstructWith(FacadeApiKeys, DataCtorKwargs)

DataCall == CallOf(DataCalls, {"idle", "raised", "done"})

DataAttempt == AttemptOf(DataOutcomes)

DataNext == DataConstruct \/ DataCall \/ DataAttempt \/ Exit \/ Finish

SpecData == Init /\ [][DataNext]_vars

\* two callers, "a" and "b", run _get with their steps interleaved, either on
\* one instance (both entries of `self` are that instance and change
\* together) or each on its own.  `frame` and `net` are the caller's own: the
\* locals of its activation and the requests that it issued.  A pass of the
\* loop takes two steps, with requests.get in flight between them.

\* variant: the attributes are those of the class, one set for all instances
WrittenForAll(c, s) == [d \in Clients |-> s]

\* `self` once caller c has assigned to an attribute, s being its instance
\* after the assignment
Written(c, s) ==
    IF sharing.shared THEN [d \in Clients |-> s] ELSE [self EXCEPT ![c] = s]

\* `sharing` once caller c has assigned to an attribute: the other callers
\* inside _get on the same instance have met the write
Met(c) ==
    [sharing EXCEPT !.disturbed =
        [d \in Clients |->
            IF /\ d # c
               /\ sharing.shared
               /\ frame[d].pc \in {"while", "get"}
            THEN TRUE ELSE @[d]]]

\* one client = OpenWeatherMapClient(api_key, max_retries=n) for both
\* callers, or one for each
SharedConstruct ==
    /\ ~ctor.called
    /\ \E shared \in BOOLEAN, kwargs \in SharedCtorKwargs :
        /\ ctor' = [called |-> TRUE,
                    api_key |-> [c \in Clients |-> SharedApiKey],
                    kwargs |-> kwargs]
        /\ obj' = [c \in Clients |-> "constructed"]
        /\ self' = [c \in Clients |-> NewClient(SharedApiKey, kwargs)]
        /\ log' = [c \in Clients |-> InitLog(SharedApiKey)]
        /\ sharing' = [NoSharing EXCEPT !.shared = shared]
    /\ UNCHANGED <<frame, net, call, reached, result, held>>

\* a caller calls a facade method, which runs up to the first test of the
\* loop of _get
SharedCall ==
    \E c \in Clients, cl \in SharedCalls :
        /\ obj[c] = "constructed"
        /\ frame[c].pc \in {"idle", "returned", "raised"}
        /\ sharing.calls[c] < MaxSharedCalls
        /\ LET d == Delegate(self[c], cl)
               go == GetEnter(d.self, d.uri, d.kwargs)
           IN  /\ self' = Written(c, go.self)
               /\ frame' = [frame EXCEPT ![c] = go.frame]
               /\ net' = [net EXCEPT ![c] = go.net]
               /\ reached' = [reached EXCEPT ![c] =
                                [uri |-> go.frame.uri,
                                 kwargs |-> go.frame.kwargs, requests |-> 0]]
        /\ call' = cl
        /\ result' = [result EXCEPT ![c] = NoResult]
        /\ log' = [log EXCEPT ![c] = <<>>]
        /\ sharing' = [Met(c) EXCEPT !.calls[c] = @ + 1,
                                     !.disturbed[c] = FALSE]
        /\ UNCHANGED <<obj, ctor, held>>

\* the loop test holds for a caller: it increments the count and sends its
\* request
SharedSend ==
    \E c \in Clients :
        /\ frame[c].pc = "while"
        /\ LoopCond(self[c], frame[c])
        /\ self' = Written(c, [self[c] EXCEPT !.last_uri_call_tries = @ + 1])
        /\ frame' = [frame EXCEPT ![c].pc = "get"]
        /\ sharing' = Met(c)
        /\ UNCHANGED <<obj, net, ctor, call, reached, result, log, held>>

\* requests.get comes to its outcome, which the caller handles with the count
\* as it now is
SharedReceive ==
    \E c \in Clients, outcome \in SharedOutcomes :
        /\ frame[c].pc = "get"
        /\ LET tries == self[c].last_uri_call_tries
               max_retries == self[c].max_retries
               f == IF outcome.kind = "raise"
                    THEN OnFailure(frame[c], tries, max_retries, outcome.text)
                    ELSE OnResponse(
                            [frame[c] EXCEPT
                                !.response = Response(outcome.status_code)],
                            tries, max_retries, outcome.status_code)
           IN  /\ frame' = [frame EXCEPT ![c] =
                                [f EXCEPT !.pc = IF @ = "get" THEN "while"
                                                 ELSE @]]
               /\ net' = [net EXCEPT ![c] =
                                Observe(net[c], frame[c], tries, outcome)]
               /\ log' = [log EXCEPT ![c] =
                                @ \o IterLog(tries, max_retries, outcome)]
        /\ reached' = [reached EXCEPT ![c].requests = @ + 1]
        /\ UNCHANGED <<obj, self, ctor, call, result, held, sharing>>

\* the loop test fails for a caller: its _get returns
SharedExit ==
    \E c \in Clients :
        /\ frame[c].pc = "while"
        /\ ~LoopCond(self[c], frame[c])
        /\ frame' = [frame EXCEPT ![c] =
                        GetExit(self[c], frame[c], net[c]).frame]
        /\ UNCHANGED <<obj, self, net, ctor, call, reached, result, log, held,
                       sharing>>

SharedNext ==
    SharedConstruct \/ SharedCall \/ SharedSend \/ SharedReceive \/ SharedExit

SpecShared == Init /\ [][SharedNext]_vars

\* get_current_weather_within_box alone: called with a list of its own, or
\* called again with the list object that the caller passed the time before
BoxCall == CallOf(BoxCalls, {"idle", "returned", "raised", "rejected"})

BoxCallAgain ==
    /\ call.op = "get_current_weather_within_box"
    /\ CallOf({[call EXCEPT !.box = held]},
              {"returned", "raised", "rejected"})

BoxNext == FacadeConstruct \/ BoxCall \/ BoxCallAgain \/ Attempt \/ Exit

SpecBox == Init /\ [][BoxNext]_vars

\* the schemas alone: _deserialize_with_schema reads nothing of the instance,
\* so a schema and a raw mapping are drawn at the start and loaded once; both
\* entries of `result` receive what the call gives
SchemaInit ==
    /\ obj = [c \in Clients |-> "none"]
    /\ self = [c \in Clients |-> NoAttrs]
    /\ frame = [c \in Clients |-> IdleFrame]
    /\ net = [c \in Clients |-> NoTraffic]
    /\ ctor = NoCtor
    /\ call \in LoadCalls
    /\ reached = [c \in Clients |-> NoGet]
    /\ result = [c \in Clients |-> NoResult]
    /\ log = [c \in Clients |-> <<>>]
    /\ held = NoList
    /\ sharing = NoSharing

LoadWithSchema ==
    /\ call.op = "_deserialize_with_schema"
    /\ \A c \in Clients : result[c] = NoResult
    /\ LET go == DeserializeWithSchema(call.data_schema_info, call.json_data)
       IN  result' = [c \in Clients |->
                        IF go.kind = "raise"
                        THEN [kind |-> "raise", exc |-> go.exc]
                        ELSE [kind |-> "record", value |-> go.value]]
           /\ log' = [c \in Clients |-> ReturnLog(go)]
    /\ UNCHANGED <<obj, self, frame, net, ctor, call, reached, held, sharing>>

SpecSchema == SchemaInit /\ [][LoadWithSchema]_vars

----------------------------------------------------------------------------
(* Properties of the retry loop of _get *)

\* C1: when every attempt before the first 200 raised a connection error or a
\* timeout, the 200 is the last request of the invocation (also when it is
\* attempt number max_retries), nothing is raised, the 200 response is what
\* _get holds and returns, and last_uri_call_tries is the index of that attempt.
C1_SuccessOnAnyAttempt ==
    \A c \in Live :
        LET n == net[c]
            f == frame[c]
            s == self[c]
        IN  (s.max_retries >= 1 /\ n.first_ok # 0 /\ n.failed >= n.first_ok - 1)
            => /\ n.requests = n.first_ok
               /\ f.pc \in {"while", "returned"}
               /\ f.exc = NoExc
               /\ f.response = Response(200)
               /\ s.last_uri_call_tries = n.first_ok
               /\ ~LoopCond(s, f)

\* max_retries = 3, two failures, then 200 on the third try, returned
C1_Witness ==
    \E c \in Live :
        /\ self[c].max_retries = 3
        /\ net[c].failed = 2 /\ net[c].first_ok = 3
        /\ frame[c].pc = "returned"
        /\ frame[c].response = Response(200)
        /\ self[c].last_uri_call_tries = 3

\* C2: while every attempt of an invocation was answered 502, at most
\* max_retries requests are issued, nothing is raised before request number
\* max_retries, and at request number max_retries the call has raised
\* OWMClientAccessLimitationError with last_uri_call_tries = max_retries.
C2_BadGatewayExhausts ==
    \A c \in Live :
        LET n == net[c]
            f == frame[c]
            s == self[c]
        IN  (s.max_retries >= 1 /\ n.requests >= 1 /\ n.bad_gateway = n.requests)
            => /\ n.requests <= s.max_retries
               /\ s.last_uri_call_tries = n.requests
               /\ n.requests < s.max_retries
                    => f.pc = "while" /\ f.exc = NoExc /\ LoopCond(s, f)
               /\ n.requests = s.max_retries
                    => /\ f.pc = "raised"
                       /\ f.exc.type = "OWMClientAccessLimitationError"

\* max_retries = 3 and three 502 answers
C2_Witness ==
    \E c \in Live :
        /\ self[c].max_retries = 3
        /\ net[c].requests = 3 /\ net[c].bad_gateway = 3
        /\ frame[c].pc = "raised"
        /\ frame[c].exc.type = "OWMClientAccessLimitationError"

\* C3: a step in which a request raises a connection error or a timeout leaves
\* the call running, nothing raised, with the loop test true when the attempt
\* index is below max_retries, and raises OpenWeatherMapClientError with the
\* text of the cause otherwise; after a failure below max_retries the next
\* step is one more request, and after a raise no request belongs to the call.
C3_FailureRetriedUntilLast ==
    [][\A c \in Live :
        LET failedNow == /\ net'[c].requests = net[c].requests + 1
                         /\ net'[c].last.kind = "raise"
        IN  /\ failedNow /\ self'[c].last_uri_call_tries < self[c].max_retries
                => /\ frame'[c].pc = "while"
                   /\ frame'[c].exc = NoExc
                   /\ LoopCond(self'[c], frame'[c])
            /\ failedNow /\ self'[c].last_uri_call_tries >= self[c].max_retries
                => /\ self'[c].last_uri_call_tries = self[c].max_retries
                   /\ frame'[c].pc = "raised"
                   /\ frame'[c].exc =
                        Exc("OpenWeatherMapClientError", net'[c].last.text)
            /\ (frame[c].pc = "while" /\ net[c].last.kind = "raise")
                => net'[c].requests = net[c].requests + 1
            /\ frame[c].pc = "raised"
                => net'[c] = net[c] \/ net'[c] = NoTraffic
      ]_vars

\* two failures were retried and the third, on the last try, was raised
C3_Witness ==
    \E c \in Live :
        /\ self[c].max_retries = 3
        /\ net[c].requests = 3 /\ net[c].failed = 3
        /\ frame[c].pc = "raised"
        /\ frame[c].exc = Exc("OpenWeatherMapClientError", "read timed out")

\* C4: a call that ended after a response with a status other than 200 and
\* 502 on the attempt number max_retries has raised the HTTP error of that
\* status; it has not returned.
C4_FinalStatusRaises ==
    \A c \in Live :
        LET n == net[c]
            f == frame[c]
            s == self[c]
        IN  (/\ f.pc \in {"returned", "raised"}
             /\ n.last.kind = "response"
             /\ n.last.status_code \notin {200, 502}
             /\ s.last_uri_call_tries >= s.max_retries)
            => /\ f.pc = "raised"
               /\ f.exc = HTTPError(n.last.status_code)

\* C5 as stated: after a response with a status other than 200 and 502 on an
\* attempt below max_retries the call has failed with the HTTP error of that
\* status.
C5_NonFinalStatusFailsAtOnce ==
    \A c \in Live :
        LET n == net[c]
            f == frame[c]
            s == self[c]
        IN  (/\ n.last.kind = "response"
             /\ n.last.status_code \notin {200, 502}
             /\ s.last_uri_call_tries < s.max_retries)
            => /\ f.pc = "raised"
               /\ f.exc = HTTPError(n.last.status_code)

\* C5 amended: a step in which a response with a status other than 200 and
\* 502 arrives on an attempt below max_retries raises nothing and leaves the
\* loop test true, and the step after it is one more request.
C5_NonFinalStatusRetried ==
    [][\A c \in Live :
        LET other(n) == /\ n.last.kind = "response"
                        /\ n.last.status_code \notin {200, 502}
        IN  /\ (/\ net'[c].requests = net[c].requests + 1
                /\ other(net'[c])
                /\ self'[c].last_uri_call_tries < self[c].max_retries)
                => /\ frame'[c].pc = "while"
                   /\ frame'[c].exc = NoExc
                   /\ LoopCond(self'[c], frame'[c])
            /\ (/\ frame[c].pc = "while"
                /\ other(net[c])
                /\ self[c].last_uri_call_tries < self[c].max_retries)
                => net'[c].requests = net[c].requests + 1
      ]_vars

\* the first answer was neither a failure, nor 200, nor 502, and the second
\* request was answered 200 and returned
C5_Witness ==
    \E c \in Live :
        /\ net[c].requests = 2 /\ net[c].first_ok = 2
        /\ net[c].failed = 0 /\ net[c].bad_gateway = 0
        /\ frame[c].pc = "returned"

\* C6: every ended invocation of _get has issued at least one request, and
\* what a returned invocation returns is the response of its last request.
C6_AtLeastOneRequest ==
    \A c \in Live :
        LET n == net[c]
            f == frame[c]
        IN  /\ f.pc \in {"returned", "raised"} => n.requests >= 1
            /\ f.pc = "returned"
                => /\ f.response.kind = "response"
                   /\ n.last.kind = "response"
                   /\ f.response.status_code = n.last.status_code

----------------------------------------------------------------------------
(* Properties of __init__ *)

\* C7: a constructed client has max_retries >= 1, and the default value 5
\* when the max_retries argument was below 1.
C7_MaxRetriesAtLeastOne ==
    \A c \in Live :
        /\ self[c].max_retries >= 1
        /\ ("max_retries" \in DOMAIN ctor.kwargs /\ ctor.kwargs.max_retries < 1)
            => self[c].max_retries = 5

\* C8: once the constructor ran, a client given api_key None has raised
\* OWMClientKeyNotDefinedError, has no attribute set and never runs a call;
\* a client given any other api_key is constructed with its attributes set.
C8_KeyRequired ==
    ctor.called =>
        \A c \in Clients :
            IF ctor.api_key[c] = None
            THEN /\ obj[c] = "failed"
                 /\ frame[c].exc.type = "OWMClientKeyNotDefinedError"
                 /\ self[c] = NoAttrs
                 /\ frame[c].pc = "idle"
                 /\ net[c] = NoTraffic
            ELSE /\ obj[c] = "constructed"
                 /\ DOMAIN self[c] # {}
                 /\ self[c].api_key = ctor.api_key[c]

\* one constructor call with None and one with the empty string
C8_Witness ==
    /\ ctor.called
    /\ ctor.api_key["a"] = None /\ obj["a"] = "failed"
    /\ ctor.api_key["b"] = "" /\ obj["b"] = "constructed"

\* C9: a client on which no call was made yet has the host argument as host
\* (the default host when it was left out or empty), 'https://<host>' as base
\* uri unless use_ssl was false and then 'http://<host>', exactly appid and
\* units as base query parameters, last_uri_call None and 0 tries.
C9_FreshClient ==
    \A c \in Live :
        frame[c].pc = "idle" =>
            LET kw == ctor.kwargs
                s == self[c]
                host == IF "host" \in DOMAIN kw /\ kw.host # ""
                        THEN kw.host ELSE "api.openweathermap.org"
                ssl == IF "use_ssl" \in DOMAIN kw THEN kw.use_ssl ELSE TRUE
                units == IF "units" \in DOMAIN kw THEN kw.units ELSE "metric"
            IN  /\ s.host = host
                /\ s._base_uri = (IF ssl THEN "https://" ELSE "http://") \o host
                /\ Len(s._base_uri_params) = 2
                /\ Keys(s._base_uri_params) = {"appid", "units"}
                /\ Get(s._base_uri_params, "appid") = S(ctor.api_key[c])
                /\ Get(s._base_uri_params, "units") = S(units)
                /\ s.last_uri_call = None
                /\ s.last_uri_call_tries = 0

\* a fresh client built with use_ssl=False and host=''
C9_Witness ==
    \E c \in Live :
        /\ frame[c].pc = "idle"
        /\ "use_ssl" \in DOMAIN ctor.kwargs /\ ~ctor.kwargs.use_ssl
        /\ "host" \in DOMAIN ctor.kwargs /\ ctor.kwargs.host = ""
        /\ self[c]._base_uri = "http://api.openweathermap.org"

----------------------------------------------------------------------------
(* Properties of the diagnostic string *)

\* uri and parameters written out as they are
Shown(uri, params) ==
    uri \o "?" \o Join([i \in DOMAIN params |->
                            params[i][1] \o "=" \o Str(params[i][2])], "&")

\* the parameters with 'XxX' in the place of the appid value
Masked(params) ==
    [i \in DOMAIN params |->
        IF params[i][1] = "appid" THEN <<"appid", S("XxX")>> ELSE params[i]]

\* what C10 says of one call of client c
AppidMasked(c) ==
    LET kw == frame[c].kwargs
    IN  /\ "params" \in DOMAIN kw
        /\ "appid" \in Keys(kw.params)
        /\ self[c].last_uri_call = Shown(frame[c].uri, Masked(kw.params))
        /\ \A d \in Live : self[d].last_uri_call = self[c].last_uri_call
        /\ net[c].requests >= 1
            => /\ net[c].sent.kwargs = kw
               /\ Get(net[c].sent.kwargs.params, "appid") = S(self[c].api_key)

\* C10 as stated: whatever the operation, last_uri_call shows appid=XxX, is the
\* same for clients that differ in api_key only, and the request sent carries
\* the api_key of the client as appid.
C10_AppidAlwaysMasked ==
    \A c \in Live : frame[c].pc # "idle" => AppidMasked(c)

\* C10 amended: that holds of every operation but get_city_list, which sends
\* no query parameter: its last_uri_call is the uri followed by '?', the same
\* for every client, and its request carries no appid.
C10_CredentialMasked ==
    \A c \in Live :
        frame[c].pc # "idle" =>
            IF call.op # "get_city_list"
            THEN AppidMasked(c)
            ELSE /\ "params" \notin DOMAIN frame[c].kwargs
                 /\ self[c].last_uri_call = frame[c].uri \o "?"
                 /\ \A d \in Live : self[d].last_uri_call = self[c].last_uri_call
                 /\ net[c].requests >= 1 => net[c].sent.kwargs = frame[c].kwargs

\* two clients with different keys made the same UV index request
C10_Witness ==
    /\ Live = Clients
    /\ self["a"].api_key # self["b"].api_key
    /\ call.op = "get_uv_index_current"
    /\ \A c \in Clients :
        /\ net[c].requests >= 1
        /\ Get(net[c].sent.kwargs.params, "appid") = S(self[c].api_key)
        /\ self[c].last_uri_call =
            "https://api.openweathermap.org/data/2.5/uvi?lat=37&lon=-122&appid=XxX"

----------------------------------------------------------------------------
(* Properties of the facade *)

\* the query parameters among the keywords handed to _get
ParamsOf(kwargs) ==
    IF "params" \in DOMAIN kwargs THEN kwargs.params ELSE EmptyDict

\* C11: after any sequence of calls, last_uri_call is the redacted URI of the
\* most recent call that entered _get, whatever came before it and whether or
\* not a later call was refused, and last_uri_call_tries is the number of
\* requests that invocation has issued: 0 before its first request.
C11_SnapshotOfLastGet ==
    \A c \in Live :
        /\ reached[c] = NoGet =>
                /\ self[c].last_uri_call = None
                /\ self[c].last_uri_call_tries = 0
        /\ reached[c] # NoGet =>
                /\ self[c].last_uri_call =
                        Shown(reached[c].uri, Masked(ParamsOf(reached[c].kwargs)))
                /\ self[c].last_uri_call_tries = reached[c].requests
        /\ frame[c].pc \in {"while", "returned", "raised"} =>
                /\ reached[c].uri = frame[c].uri
                /\ reached[c].kwargs = frame[c].kwargs
                /\ reached[c].requests = net[c].requests

\* a historical UV index call made two requests, and the box call made after
\* it was refused: the fields still describe the UV index call
C11_Witness ==
    \E c \in Live :
        /\ call.op = "get_current_weather_within_box"
        /\ frame[c].pc = "rejected"
        /\ reached[c].requests = 2
        /\ self[c].last_uri_call_tries = 2
        /\ self[c].last_uri_call =
            "https://api.openweathermap.org/data/2.5/uvi/history?lat=37&lon=-122"
            \o "&start=1498049953.0&end=1498481991.0&appid=XxX"

\* the arguments that a facade method refuses
InvalidArgs(cl) ==
    \/ /\ cl.op = "get_current_weather_within_box"
       /\ Len(cl.box) # 4
    \/ /\ cl.op \in {"get_current_weather_within_box",
                     "get_current_weather_within_circle"}
       /\ cl.cluster \notin {None, "yes", "no"}
    \/ /\ cl.op \in {"get_forecast_by_city_name",
                     "get_current_weather_by_city_name"}
       /\ cl.search_type \notin {None, "like", "accurate"}
    \/ /\ cl.op = "get_current_weather_group"
       /\ Len(cl.city_ids) > 20

\* a step in which client c begins a facade call
Begins(c) ==
    /\ c \in Live
    /\ frame[c].pc # "while"
    /\ frame'[c].pc \in {"while", "rejected"}

\* C12: a facade call with a box of other than 4 coordinates, an invalid
\* cluster, an invalid search_type or more than 20 city IDs raises ValueError,
\* issues no request and leaves last_uri_call and last_uri_call_tries as they
\* were: None and 0 on a fresh client, the values of the previous call
\* otherwise.
C12_RejectionLeavesNoTrace ==
    [][\A c \in Clients :
        (Begins(c) /\ InvalidArgs(call')) =>
            /\ frame'[c].pc = "rejected"
            /\ frame'[c].exc.type = "ValueError"
            /\ net'[c].requests = 0
            /\ reached'[c] = reached[c]
            /\ self'[c].last_uri_call = self[c].last_uri_call
            /\ self'[c].last_uri_call_tries = self[c].last_uri_call_tries
            /\ (frame[c].pc = "idle" => self'[c].last_uri_call_tries = 0)]_vars

\* a group call with 21 city IDs was refused after a call that took one
\* request
C12_Witness ==
    \E c \in Live :
        /\ call.op = "get_current_weather_group"
        /\ Len(call.city_ids) = 21
        /\ frame[c].pc = "rejected"
        /\ frame[c].exc = Exc("ValueError", "The limit of locations is 20.")
        /\ self[c].last_uri_call # None
        /\ self[c].last_uri_call_tries = 1

\* the current call of client c was handed to _get with query parameters p:
\* it was not refused, every request made so far carried p, and with
\* max_retries >= 1 the call does not end before a request is made
HandedOn(c, p) ==
    /\ frame[c].pc \in {"while", "returned", "raised"}
    /\ frame[c].exc.type # "ValueError"
    /\ frame[c].kwargs = [params |-> p]
    /\ net[c].requests >= 1 => net[c].sent.kwargs.params = p
    /\ self[c].max_retries >= 1 =>
            /\ (frame[c].pc = "while" /\ net[c].requests = 0)
                    => LoopCond(self[c], frame[c])
            /\ frame[c].pc \in {"returned", "raised"} => net[c].requests >= 1

\* the current call of client c raised ValueError(msg) and made no request
Refused(c, msg) ==
    /\ frame[c].pc = "rejected"
    /\ frame[c].exc = Exc("ValueError", msg)
    /\ net[c].requests = 0

\* C13: get_forecast_by_city_name and get_current_weather_by_city_name raise
\* ValueError before any request when search_type is none of None, 'like',
\* 'accurate'; with an accepted search_type the call goes on to its request,
\* which carries 'type' = search_type exactly when search_type is not None.
C13_SearchTypeChecked ==
    \A c \in Live :
        (/\ call.op \in {"get_forecast_by_city_name",
                         "get_current_weather_by_city_name"}
         /\ frame[c].pc # "idle") =>
            IF call.search_type \in {None, "like", "accurate"}
            THEN \E p \in {ParamsOf(frame[c].kwargs)} :
                    /\ HandedOn(c, p)
                    /\ "type" \in Keys(p) <=> call.search_type # None
                    /\ "type" \in Keys(p) => Get(p, "type") = S(call.search_type)
            ELSE Refused(c, "Invalid search_type: " \o call.search_type
                            \o ". Expected are: None/like/accurate.")

\* the current weather of a city was requested by name with 'accurate'
C13_Witness ==
    \E c \in Live :
        /\ call.op = "get_current_weather_by_city_name"
        /\ call.search_type = "accurate"
        /\ net[c].requests >= 1
        /\ Get(net[c].sent.kwargs.params, "q") = S("Montcuq,FR")
        /\ Get(net[c].sent.kwargs.params, "type") = S("accurate")

\* the IDs of a list written one after the other with commas between them
RECURSIVE CommaList(_)
CommaList(ids) ==
    IF ids = <<>> THEN ""
    ELSE ToString(Head(ids))
         \o (IF Len(ids) > 1 THEN "," \o CommaList(Tail(ids)) ELSE "")

\* the keys of p other than the two that _get_data adds
LocationKeys(p) == Keys(p) \ {"appid", "units"}

\* C14: get_current_weather_group raises ValueError without a request for a
\* list of more than 20 city IDs (21 are refused); a list of at most 20 (20
\* included) goes on to its request with one 'id' parameter that joins all
\* the IDs with commas, in order.
C14_GroupLimit ==
    \A c \in Live :
        (call.op = "get_current_weather_group" /\ frame[c].pc # "idle") =>
            IF Len(call.city_ids) > 20
            THEN Refused(c, "The limit of locations is 20.")
            ELSE \E p \in {ParamsOf(frame[c].kwargs)} :
                    /\ HandedOn(c, p)
                    /\ LocationKeys(p) = {"id"}
                    /\ Cardinality({i \in DOMAIN p : p[i][1] = "id"}) = 1
                    /\ Get(p, "id") = S(CommaList(call.city_ids))

\* a group of exactly 20 city IDs was requested
C14_Witness ==
    \E c \in Live :
        /\ call.op = "get_current_weather_group"
        /\ Len(call.city_ids) = 20
        /\ net[c].requests >= 1
        /\ Get(net[c].sent.kwargs.params, "id") =
            S("6434841,6434842,6434843,6434844,6434845,6434846,6434847,"
              \o "6434848,6434849,6434850,6434851,6434852,6434853,6434854,"
              \o "6434855,6434856,6434857,6434858,6434859,6434860")

\* C15: get_current_weather_within_circle never refuses a cnt; the 'cnt' it
\* sends is cnt brought into 0 .. 50: 0 for a cnt below 0 (-5 gives 0), 50
\* for a cnt above 50 (1000 gives 50), cnt itself otherwise.
C15_CntClamped ==
    \A c \in Live :
        (call.op = "get_current_weather_within_circle" /\ frame[c].pc # "idle") =>
            /\ frame[c].pc = "rejected" => call.cluster \notin {None, "yes", "no"}
            /\ frame[c].pc # "rejected" =>
                \E p \in {ParamsOf(frame[c].kwargs)} :
                    /\ HandedOn(c, p)
                    /\ Get(p, "cnt") = I(IF call.cnt < 0 THEN 0
                                         ELSE IF call.cnt > 50 THEN 50
                                         ELSE call.cnt)
                    /\ call.cnt = -5 => Get(p, "cnt") = I(0)
                    /\ call.cnt = 1000 => Get(p, "cnt") = I(50)

\* a circle search with cnt = 1000 sent cnt = 50
C15_Witness ==
    \E c \in Live :
        /\ call.op = "get_current_weather_within_circle"
        /\ call.cnt = 1000
        /\ net[c].requests >= 1
        /\ Get(net[c].sent.kwargs.params, "cnt") = I(50)

\* the lookup variant of a forecast or current weather operation
Variant(op) ==
    CASE op \in {"get_forecast_by_city_id", "get_current_weather_by_city_id"}
            -> "id"
      [] op \in {"get_forecast_by_coord", "get_current_weather_by_coord"}
            -> "coord"
      [] op \in {"get_forecast_by_zip_code", "get_current_weather_by_zip_code"}
            -> "zip"
      [] op \in {"get_forecast_by_city_name", "get_current_weather_by_city_name"}
            -> "name"
      [] OTHER -> "none"

\* the location keys each lookup variant may send
VariantKeys ==
    [id |-> {"id"}, coord |-> {"lat", "lon"}, zip |-> {"zip"},
     name |-> {"q", "type"}]

\* C16: the forecast and current weather lookups send location keys that are
\* pairwise disjoint: by ID only 'id'; by coordinates only 'lat' and 'lon';
\* by zip only 'zip' = 'zip_code,country_code'; by name only 'q' = the name
\* or 'name,country_code', with 'type' when a search_type is given.
C16_DisjointLocationKeys ==
    /\ \A v, w \in DOMAIN VariantKeys :
            v # w => VariantKeys[v] \cap VariantKeys[w] = {}
    /\ \A c \in Live :
        (/\ Variant(call.op) # "none"
         /\ frame[c].pc \in {"while", "returned", "raised"}) =>
            \E p \in {ParamsOf(frame[c].kwargs)} :
                /\ HandedOn(c, p)
                /\ LocationKeys(p) \subseteq VariantKeys[Variant(call.op)]
                /\ CASE Variant(call.op) = "id" ->
                            /\ LocationKeys(p) = {"id"}
                            /\ Get(p, "id") = I(call.city_id)
                     [] Variant(call.op) = "coord" ->
                            /\ LocationKeys(p) = {"lat", "lon"}
                            /\ Get(p, "lat") = I(call.latitude)
                            /\ Get(p, "lon") = I(call.longitude)
                     [] Variant(call.op) = "zip" ->
                            /\ LocationKeys(p) = {"zip"}
                            /\ Get(p, "zip") =
                                S(call.zip_code \o "," \o call.country_code)
                     [] Variant(call.op) = "name" ->
                            /\ LocationKeys(p) =
                                IF call.search_type = None
                                THEN {"q"} ELSE {"q", "type"}
                            /\ Get(p, "q") =
                                IF call.country_code = None
                                THEN S(call.city_name)
                                ELSE S(call.city_name \o "," \o call.country_code)

\* a forecast was requested by zip code
C16_Witness ==
    \E c \in Live :
        /\ call.op = "get_forecast_by_zip_code"
        /\ net[c].requests >= 1
        /\ Keys(net[c].sent.kwargs.params) = {"zip", "appid", "units"}
        /\ Get(net[c].sent.kwargs.params, "zip") = S("46800,FR")

UVIndexOps ==
    {"get_uv_index_current", "get_uv_index_forecast", "get_uv_index_historical"}

\* the request last sent by client c carries appid = api_key, and it carries
\* units = the unit system of the client exactly when units are wanted
CarriesBase(c, units_wanted) ==
    LET p == ParamsOf(net[c].sent.kwargs)
    IN  /\ "appid" \in Keys(p)
        /\ Get(p, "appid") = S(self[c].api_key)
        /\ "units" \in Keys(p) <=> units_wanted
        /\ "units" \in Keys(p) => Get(p, "units") = S(self[c].units)

\* C17 as stated: every request of every operation carries appid = api_key
\* and units = the configured unit system, units being left out by the three
\* UV index operations and by no other.
C17_EveryRequestCarriesBase ==
    \A c \in Live :
        net[c].requests >= 1 => CarriesBase(c, call.op \notin UVIndexOps)

\* C17 amended: that holds of every operation that goes through _get_data;
\* the request of get_city_list carries no query parameter at all, neither
\* appid nor units.
C17_DataRequestsCarryBase ==
    \A c \in Live :
        net[c].requests >= 1 =>
            IF call.op # "get_city_list"
            THEN CarriesBase(c, call.op \notin UVIndexOps)
            ELSE net[c].sent.kwargs = [stream |-> TRUE]

\* a client configured with units = 'standard' requested the UV index
\* forecast: appid was sent, units was not
C17_Witness ==
    \E c \in Live :
        /\ call.op = "get_uv_index_forecast"
        /\ self[c].units = "standard"
        /\ net[c].requests >= 1
        /\ Keys(net[c].sent.kwargs.params) = {"lat", "lon", "appid"}
        /\ Get(net[c].sent.kwargs.params, "appid") = S(self[c].api_key)

\* the keys of p in their order
KeyOrder(p) == [i \in DOMAIN p |-> p[i][1]]

\* C18: the UV index operations hand their parameters to the transport in the
\* order lat, lon, then start, end for the historical one, and appid only
\* after them.
C18_UVIndexOrder ==
    \A c \in Live :
        (call.op \in UVIndexOps /\ frame[c].pc # "idle") =>
            \E p \in {ParamsOf(frame[c].kwargs)} :
                /\ HandedOn(c, p)
                /\ p[1] = <<"lat", I(call.latitude)>>
                /\ p[2] = <<"lon", I(call.longitude)>>
                /\ IF call.op = "get_uv_index_historical"
                   THEN /\ KeyOrder(p) = <<"lat", "lon", "start", "end", "appid">>
                        /\ p[3] = <<"start", F(call.dt_start)>>
                        /\ p[4] = <<"end", F(call.dt_end)>>
                   ELSE KeyOrder(p) = <<"lat", "lon", "appid">>

\* the historical UV index was requested
C18_Witness ==
    \E c \in Live :
        /\ call.op = "get_uv_index_historical"
        /\ net[c].requests >= 1
        /\ KeyOrder(net[c].sent.kwargs.params) =
            <<"lat", "lon", "start", "end", "appid">>

----------------------------------------------------------------------------
(* Properties of the handling of the response body *)

\* the last request of client c was answered with a body that has an 'error'
\* key
ErrorBody(c) ==
    /\ net[c].requests >= 1
    /\ net[c].last.kind = "response"
    /\ "error" \in Keys(net[c].last.body)

\* the application error that _get_data raises for the body last received
ErrorRaised(c) ==
    Exc("OpenWeatherMapClientError",
        Str(Get(net[c].last.body, "error")) \o ON_GET
        \o Shown(reached[c].uri, Masked(ParamsOf(reached[c].kwargs))))

\* C19 as stated: whenever the body of the response has an 'error' key, the
\* operation ends by raising OpenWeatherMapClientError with the error value
\* and the redacted URI in its message and returns no record, whatever the
\* HTTP status of that response.
C19_ErrorKeyAlwaysRaises ==
    \A c \in Live :
        (ErrorBody(c) /\ frame[c].pc \in {"raised", "done"}) =>
            /\ frame[c].pc = "raised"
            /\ frame[c].exc = ErrorRaised(c)
            /\ result[c] = NoResult

\* C19 amended: that holds of the response that _get returns to _get_data: a
\* 200, or another status below 400 received on the last try.  A response
\* with a 4xx or 5xx status never has its body read: on the last try _get
\* raises HTTPError, or OWMClientAccessLimitationError for 502; before the
\* last try the response is dropped and the request is sent again.
C19_ErrorKeyInReturnedBody ==
    [][\A c \in Live :
        /\ (ErrorBody(c) /\ frame[c].pc = "returned"
                /\ frame'[c].pc # "returned") =>
                /\ net[c].last.status_code < 400
                /\ frame'[c].pc = "raised"
                /\ frame'[c].exc = ErrorRaised(c)
                /\ result'[c] = NoResult
        /\ (ErrorBody(c)' /\ frame[c].pc = "while"
                /\ net'[c].requests = net[c].requests + 1
                /\ net'[c].last.status_code >= 400) =>
                IF net'[c].requests >= self[c].max_retries
                THEN /\ frame'[c].pc = "raised"
                     /\ frame'[c].exc =
                            IF net'[c].last.status_code = 502
                            THEN Exc("OWMClientAccessLimitationError",
                                     frame'[c].exc.msg)
                            ELSE HTTPError(net'[c].last.status_code)
                ELSE /\ frame'[c].pc = "while"
                     /\ frame'[c].exc = NoExc
                     /\ LoopCond(self'[c], frame'[c])]_vars

\* a 200 with an 'error' key in its body ended in the application error
C19_Witness ==
    \E c \in Live :
        /\ call.op = "get_forecast_by_city_id"
        /\ self[c]._base_uri = "https://api.openweathermap.org"
        /\ self[c].units = "metric"
        /\ net[c].last.kind = "response"
        /\ net[c].last.status_code = 200
        /\ ErrorBody(c)
        /\ Get(net[c].last.body, "error") = S("city not found")
        /\ frame[c].pc = "raised"
        /\ frame[c].exc =
            Exc("OpenWeatherMapClientError",
                "city not found" \o ON_GET
                \o "https://api.openweathermap.org/data/2.5/forecast"
                \o "?id=6434841&appid=XxX&units=metric")
        /\ result[c] = NoResult

\* the body has a value that the field declared for its key does not take
Mismatch(schema_name, body) ==
    \E f \in Schemas[schema_name] :
        \E k \in {f.name, f.load_from} \cap Keys(body) :
            /\ (k = f.load_from => f.name \notin Keys(body))
            /\ f.type = "Integer"
            /\ Get(body, k).t # "int"

\* the schema of the service of the current call
SchemaOf(cl) == _AVAILABLE_SERVICES[Facade(cl).service].schema.name

\* C20: when the body of the response does not match the schema of the
\* service (a value is invalid for its field), the operation raises
\* OWMClientValidationError; it never returns a record from which the
\* invalid fields were dropped.
C20_MismatchRaises ==
    \A c \in Live :
        (/\ frame[c].pc \in {"raised", "done"}
         /\ net[c].requests >= 1
         /\ net[c].last.kind = "response"
         /\ net[c].last.status_code < 400
         /\ "error" \notin Keys(net[c].last.body)
         /\ Mismatch(SchemaOf(call), net[c].last.body)) =>
            /\ frame[c].pc = "raised"
            /\ frame[c].exc.type = "OWMClientValidationError"
            /\ result[c] = NoResult

----------------------------------------------------------------------------
(* Properties of the schemas *)

\* x == y in Python, for the values stored in a mapping
SameValue(x, y) ==
    \/ x.t \in {"int", "float"} /\ y.t \in {"int", "float"} /\ x.v = y.v
    \/ x.t = "str" /\ y.t = "str" /\ x.v = y.v

\* the value is one that the class of the field takes
Takes(field, v) ==
    CASE field.type \in {"Integer", "Float", "Method"} ->
            v.t \in {"int", "float"}
      [] field.type = "String" -> v.t = "str"
      [] field.type = "DateTime" -> v.t = "str" /\ v.v \in IsoTexts
      [] field.type = "Nested" ->
            v.t = "dict" /\ Load(field.schema, v.v).errors = {}
      [] field.type = "List" -> v.t = "list"

\* the renamed fields of the schema loaded, when the mapping loaded holds
\* their source key and nothing else, with a value that the field takes
RenamedAlone ==
    IF call.op # "_deserialize_with_schema" THEN {}
    ELSE {f \in Schemas[call.data_schema_info.name] :
            /\ f.load_from # None
            /\ Keys(call.json_data) = {f.load_from}
            /\ Takes(f, Get(call.json_data, f.load_from))}

\* the source key is no key of the record, unless a field has that name
SourceKeyGone(f, record) ==
    f.load_from \in DOMAIN record =>
        \E g \in Schemas[call.data_schema_info.name] : g.name = f.load_from

----------------------------------------------------------------------------
(* Properties of the configuration *)

\* the configuration of an instance
Config(s) ==
    [api_key |-> s.api_key, host |-> s.host, max_retries |-> s.max_retries,
     units |-> s.units, _base_uri |-> s._base_uri,
     _base_uri_params |-> s._base_uri_params]

\* C22: after any sequence of operations, with any arguments and any
\* transport outcomes, api_key, host, max_retries, units, _base_uri and
\* _base_uri_params have the values that __init__ gave them, and
\* _base_uri_params still holds exactly 'appid' and 'units'.
C22_ConfigurationImmutable ==
    \A c \in Live :
        /\ Config(self[c]) = Config(NewClient(ctor.api_key[c], ctor.kwargs))
        /\ Keys(self[c]._base_uri_params) = {"appid", "units"}
        /\ Len(self[c]._base_uri_params) = 2

\* a UV index call has sent its request without 'units' and is over
C22_Witness ==
    /\ call.op \in UVIndexOps
    /\ \E c \in Live :
        /\ frame[c].pc \in {"returned", "raised"}
        /\ net[c].requests >= 1
        /\ Keys(net[c].sent.kwargs.params) \cap {"appid", "units"} = {"appid"}
        /\ Get(self[c]._base_uri_params, "units") = S("standard")
        /\ self[c].max_retries = 2

----------------------------------------------------------------------------
(* Properties of the log *)

\* the errors that the client raises to its caller
ClientErrors ==
    {"OWMClientKeyNotDefinedError", "ValueError",
     "OWMClientUnknownServiceNameError", "OpenWeatherMapClientError",
     "OWMClientAccessLimitationError", "HTTPError",
     "OWMClientValidationError"}

\* a step in which an operation of client c raises one of these errors
RaisesClientError(c) ==
    /\ frame'[c] # frame[c]
    /\ frame'[c].exc.type \in ClientErrors

\* the number of records that the step logs for client c
Logged(c) ==
    IF obj[c] = "none" \/ Begins(c)
    THEN Len(log'[c])
    ELSE Len(log'[c]) - Len(log[c])

\* C23: every error that a client operation raises to its caller (missing
\* key, invalid argument, unknown service, transport failure after the last
\* attempt, access limitation, HTTP status error, application error,
\* validation error) comes with exactly one log record, emitted where the
\* error is detected: never none and never more than one.
C23_OneRecordPerError ==
    [][\A c \in Clients : RaisesClientError(c) => Logged(c) = 1]_vars

----------------------------------------------------------------------------
(* Properties of the count of tries *)

\* C26: with one caller and max_retries >= 1, in every state of _get
\* 0 <= last_uri_call_tries <= max_retries and last_uri_call_tries is the
\* number of requests that the current call has issued; and whatever the
\* outcomes of the requests, the call ends, by returning or by raising,
\* after at most max_retries requests.
C26_TriesCountRequests ==
    /\ [](\A c \in Live :
            self[c].max_retries >= 1 =>
                /\ 0 <= self[c].last_uri_call_tries
                /\ self[c].last_uri_call_tries <= self[c].max_retries
                /\ self[c].last_uri_call_tries = net[c].requests
                /\ reached[c].requests = net[c].requests)
    /\ \A c \in Clients :
        (c \in Live /\ self[c].max_retries >= 1 /\ frame[c].pc = "while")
            ~> (/\ frame[c].pc \in {"returned", "raised"}
                /\ net[c].requests <= self[c].max_retries)

\* a call has ended after max_retries = 3 requests, by raising
C26_Witness ==
    \E c \in Live :
        /\ self[c].max_retries = 3
        /\ frame[c].pc = "raised"
        /\ self[c].last_uri_call_tries = 3
        /\ net[c].requests = 3
        /\ net[c].failed = 3

----------------------------------------------------------------------------
(* Properties of the arguments *)

\* C25: get_current_weather_within_box leaves the list of its caller as it
\* was, whether the call succeeds, fails on its cluster or fails in the
\* transport: a list of 4 coordinates still has 4 afterwards, so that a
\* second call with the same list passes the test of its length again.
C25_BoxLeftUnchanged ==
    call.op = "get_current_weather_within_box" =>
        /\ held = call.box
        /\ ~BoxInvalid(call.box) => ~BoxInvalid(held)

----------------------------------------------------------------------------
(* Properties of two callers *)

\* the call of caller c has issued more than max_retries requests
Overrun(c) == net[c].requests > self[c].max_retries

\* the call of caller c has left its loop early and returned, without raising
\* and without having received a 200
EarlyReturn(c) ==
    /\ frame[c].pc = "returned"
    /\ net[c].requests < self[c].max_retries
    /\ net[c].first_ok = 0

\* C24: when two callers run _get on one instance with their steps
\* interleaved, the shared last_uri_call_tries drives both loops, and a call
\* can issue more than max_retries requests or leave its loop early and
\* return without a 200 and without raising; a call meets neither unless the
\* instance is shared and another caller has written to it while the call
\* was running: never with one client per caller, never with one caller at
\* a time.
C24_OnlySharedAndInterleaved ==
    \A c \in Clients :
        (obj[c] = "constructed" /\ (Overrun(c) \/ EarlyReturn(c))) =>
            sharing.shared /\ sharing.disturbed[c]

\* on one instance with max_retries = 3, caller "b" has issued 4 requests and
\* caller "a" has returned a 204 after its only request
C24_Witness ==
    /\ sharing.shared
    /\ obj["a"] = "constructed"
    /\ self["a"].max_retries = 3
    /\ Overrun("b")
    /\ net["b"].requests = 4
    /\ EarlyReturn("a")
    /\ net["a"].requests = 1
    /\ frame["a"].response = Response(204)

====
